---------------------------- MODULE Spec2Model ----------------------------
(***************************************************************************)
(* Model of the news scraping pipeline (sabrim77/news_scrap_s).            *)
(*                                                                         *)
(*   core/db.py                  storage engine (news table)               *)
(*   utils/state_manager.py      seen registry                             *)
(*   core/rss_collector.py       feed collector                            *)
(*   scrapers/base/*.py          HTTP fetcher, rendering fetcher, hybrid   *)
(*   core/article_fetcher.py     adaptive fetch coordinator                *)
(*                                                                         *)
(* The pipeline is single-threaded; each subsystem is a group of variables *)
(* with its own actions and its own specification (SpecDb, SpecCollect,    *)
(* SpecFetch, ...), all starting from the common Init.                     *)
(***************************************************************************)
EXTENDS Integers, Sequences, FiniteSets, TLC

VARIABLES
    \* ---- core/db.py ----
    news,          \* rows of table news, as the connection sees them
    sqlite_seq,    \* AUTOINCREMENT high-water mark (sqlite_sequence)
    news_fts,      \* the full-text index: whether it exists, the rowids it holds
    db_call,       \* the last insert call: operation, argument, state before it,
                   \* whether the batch had items without url, whether the
                   \* call carried other values for a stored URL
    db_ret,        \* what the last insert call returned
    search_ret,    \* the last search_news call: its arguments and its result
    workers,       \* two workers that each call exists(url), then insert_news(url)
    conn,          \* _CONN: whether a connection is cached, the connections open
    \* ---- core/backfill_topics.py ----
    backfill,      \* backfill_topics(): where the pass stands, its batch_size
    \* ---- utils/state_manager.py ----
    seen_set,      \* StateManager._seen: the hashes held in memory
    state_file,    \* data/seen.json on disk
    \* ---- core/rss_collector.py ----
    collect_pos,   \* collect(): 0 = no pass running, k = the k-th feed is next
    results,       \* collect(): the result list (of the running or the last pass)
    marked_prior,  \* links mark_seen was called for in earlier passes
    marked_pass,   \* links mark_seen was called for in this pass
    skipped_pass,  \* links this pass skipped as already seen (the debug log line)
    feed_trace,    \* this pass: the links taken from feeds that parsed as
                   \* malformed, the links taken from feeds that could not be
                   \* loaded, whether such a feed was skipped
    \* ---- core/article_fetcher.py, scrapers/base/*.py ----
    fetch_pc,          \* where the running fetch_article_soup call stands
    req,               \* its arguments (portal, url) and the path it took
    attempt,           \* the loop variable of BaseScraper.get / BrowserScraper.fetch_html
    BROWSER,           \* _BROWSER: "none", or "open" (a started session)
    HYBRID_BY_PORTAL,  \* _HYBRID_BY_PORTAL: the portals with a cached HybridScraper
    base_last_ts,      \* per netloc: time.time() - _BASE._last_request_ts[netloc]
    browser_last_ts,   \* per netloc: time.time() - _BROWSER._last_request_ts[netloc]
    result,            \* what fetch_article_soup returned
    trace,             \* what the running call did so far (requests, returns)
    session,           \* the rendering sessions started and closed so far
    \* ---- core/runner.py, config/portals.py ----
    cycle_pc,      \* run_single_cycle: "idle", "collect", "process", "aborted"
    item_pos,      \* the index of the next item of the `for item in items` loop
    stats,         \* saved and skipped of the running cycle; failed: items whose
                   \* fetch or parser raised
    handed,        \* links process_item was called with, over all cycles
    rehanded,      \* links process_item was called with more than once
    last_item,     \* the last process_item call: its inputs and what it returned
    cfg_fault      \* what is wrong with the PORTALS the process was started with

dbVars == <<news, sqlite_seq, news_fts, db_call, db_ret, search_ret, workers,
           conn, backfill>>

collectVars == <<seen_set, state_file, collect_pos, results, marked_prior, marked_pass,
                 skipped_pass, feed_trace>>

fetchVars == <<fetch_pc, req, attempt, BROWSER, HYBRID_BY_PORTAL, base_last_ts,
               browser_last_ts, result, trace, session>>

runVars == <<cycle_pc, item_pos, stats, handed, rehanded, last_item, cfg_fault>>

vars == <<news, sqlite_seq, news_fts, db_call, db_ret, search_ret, workers,
          conn, backfill,
          seen_set, state_file, collect_pos, results, marked_prior, marked_pass,
          skipped_pass, feed_trace,
          fetch_pc, req, attempt, BROWSER, HYBRID_BY_PORTAL, base_last_ts,
          browser_last_ts, result, trace, session,
          cycle_pc, item_pos, stats, handed, rehanded, last_item, cfg_fault>>

\* Python None / SQL NULL for a text value.
Null == "<NULL>"

\* Python truthiness of an optional string: None and "" are falsy.
Falsy(v) == v \in {Null, ""}

\* Python `a or b` on optional strings.
Or(a, b) == IF Falsy(a) THEN b ELSE a

(***************************************************************************)
(* Article URLs, with the netloc urlparse() gives for each.                *)
(***************************************************************************)
netloc(url) ==
    CASE url = "https://example.com/x" -> "example.com"
      [] url = "https://samakal.com/a" -> "samakal.com"
      [] url = "https://samakal.com/b" -> "samakal.com"
      [] OTHER -> ""

(***************************************************************************)
(*                         core/db.py : news table                         *)
(* Init is a database file whose base schema exists and that has no        *)
(* full-text index yet.                                                    *)
(***************************************************************************)

\* Values the callers pass for the text columns.  Two titles that differ
\* only in casing, so that a duplicate can carry different field values.
Titles == {"Election", "ELECTION"}
Contents == {Null, "body"}
DbPortals == {"samakal"}
DbUrls == {"https://samakal.com/a", "https://samakal.com/b"}

\* How a storage statement can end: "ok"; "execute": sqlite raised and the
\* row is not in the table (the INSERT failed, or a failed COMMIT was rolled
\* back); "commit": the INSERT ran, COMMIT raised and the row stays in the
\* connection's open transaction.
DbFaults == {"ok", "execute", "commit"}

Stored(tbl, url) == \E r \in tbl : r.url = url

Count(tbl) == Cardinality(tbl)

\* INSERT without the conflict clause and without the UNIQUE constraint:
\* the duplicate is stored again under a new id.
InsertAlways(tbl, seq, row) ==
    tbl \cup {[row EXCEPT !.id = seq + 1]}

\* INSERT OR REPLACE: the stored row of the URL is deleted and the new row
\* is stored under a new id.
InsertOrReplace(tbl, seq, row) ==
    IF row.url = Null \/ row.portal = Null THEN tbl
    ELSE {r \in tbl : r.url # row.url} \cup {[row EXCEPT !.id = seq + 1]}

\* INSERT OR IGNORE INTO news (...): url is UNIQUE and NOT NULL, portal is
\* NOT NULL; a row that violates a constraint is skipped.  A stored row gets
\* id = sqlite_sequence + 1.
InsertOrIgnore(tbl, seq, row) ==
    IF row.url = Null \/ row.portal = Null \/ Stored(tbl, row.url)
    THEN tbl
    ELSE tbl \cup {[row EXCEPT !.id = seq + 1]}

\* cur.rowcount of the statement.
RowCount(tbl, tbl2) == Count(tbl2) - Count(tbl)

NextSeq(tbl, tbl2, seq) == IF tbl2 = tbl THEN seq ELSE seq + 1

\* Trigger news_ai (AFTER INSERT ON news): once _create_fts_schema has
\* created it, every row a statement stores is entered into news_fts under
\* its id, in the statement's transaction.
news_ai(idx, tbl, tbl2) ==
    IF idx.created
    THEN [idx EXCEPT !.rowids = @ \cup {r.id : r \in tbl2 \ tbl}]
    ELSE idx

\* SELECT count(*) AS c FROM news_fts.  news_fts is an external-content
\* table (content='news'): a query that does not use the full-text index
\* reads the content table, so the count is the number of rows of news.
FtsCount(idx, tbl) == Count(tbl)

\* _create_fts_schema(conn), fts_available = what _fts_available(conn)
\* answered: the table and the triggers are created if missing, and the
\* backfill runs if the count is 0.
create_fts_schema(idx, tbl, fts_available) ==
    IF ~fts_available THEN idx
    ELSE [created |-> TRUE,
          rowids |-> IF FtsCount(idx, tbl) = 0
                     THEN idx.rowids \cup {r.id : r \in tbl}
                     ELSE idx.rowids]

\* Saturating count 0, 1, 2 (2: more than once).
Inc2(n) == IF n < 2 THEN n + 1 ELSE 2

\* _CONN is None and no connection is open.  open: the connections of this
\* process that are open; closes: the close() calls made in a row, with no
\* operation between them; after_closes: how many close() calls in a row
\* came before the cached connection was opened.
NoConn == [cached |-> FALSE, open |-> 0, closes |-> 0, after_closes |-> 0]

\* How _get_conn can end when it has to connect: "ok"; "connect":
\* sqlite3.connect raised; "pragma": a PRAGMA raised on the new connection,
\* which is never assigned to _CONN and is closed when the exception that
\* holds its frame is released.
ConnFaults == {"ok", "connect", "pragma"}

\* _get_conn without the `if _CONN is not None` test.
get_conn_uncached(c, fault) ==
    IF fault = "ok"
    THEN [cached |-> TRUE, open |-> Inc2(c.open), closes |-> 0,
          after_closes |-> c.closes]
    ELSE [c EXCEPT !.closes = 0]

\* _get_conn(): the cached connection, or a new one that is cached.
get_conn(c, fault) ==
    IF c.cached THEN [c EXCEPT !.closes = 0]
    ELSE IF fault = "ok"
         THEN [cached |-> TRUE, open |-> Inc2(c.open), closes |-> 0,
               after_closes |-> c.closes]
         ELSE [c EXCEPT !.closes = 0]

\* close(): the cached connection is closed and _CONN is reset; nothing
\* happens without a cached connection.
close(c) ==
    IF c.cached
    THEN [c EXCEPT !.cached = FALSE, !.open = @ - 1, !.closes = 1, !.after_closes = 0]
    ELSE [c EXCEPT !.closes = Inc2(@)]

\* A storage helper that got its connection from _get_conn().
UsesConn == conn' = get_conn(conn, "ok") /\ UNCHANGED backfill

\* init_db(): the base schema exists already; the full-text schema is ensured.
init_db(fts_available) ==
    /\ news_fts' = create_fts_schema(news_fts, news, fts_available)
    /\ UNCHANGED <<news, sqlite_seq, db_call, db_ret, search_ret, workers>>
    /\ UsesConn

NewRow(portal, url, title, content, topic, pub_date) ==
    [id |-> 0, portal |-> portal, url |-> url, title |-> title,
     content |-> content, topic |-> topic, pub_date |-> pub_date]

\* The row is a duplicate that carries other values: its URL is stored and
\* the stored row differs from it in some column other than id.
DiffersFromStored(tbl, row) ==
    \E r \in tbl : r.url = row.url /\ [r EXCEPT !.id = 0] # row

\* insert_news(portal, url, title, content, topic, pub_date) -> bool
insert_news_row(row, fault) ==
    LET url == row.url
        tbl2 == IF fault = "execute" THEN news
                ELSE InsertOrIgnore(news, sqlite_seq, row)
    IN  /\ news' = tbl2
        /\ sqlite_seq' = NextSeq(news, tbl2, sqlite_seq)
        /\ news_fts' = news_ai(news_fts, news, tbl2)
        /\ db_call' = [op |-> "insert_news", url |-> url, fault |-> fault,
                       stored_before |-> Stored(news, url),
                       count_before |-> Count(news),
                       nourl |-> "none",
                       differs |-> DiffersFromStored(news, row)]
        /\ db_ret' = IF fault = "ok" THEN [kind |-> "bool", val |-> IF RowCount(news, tbl2) > 0 THEN 1 ELSE 0]
                     ELSE [kind |-> "bool", val |-> 0]
        /\ UNCHANGED <<search_ret, workers>>
        /\ UsesConn

\* insert_news with topic and pub_date left at their default (None).
insert_news(portal, url, title, content, fault) ==
    insert_news_row(NewRow(portal, url, title, content, Null, Null), fault)

(***************************************************************************)
(* insert_articles: the batch-article shape.  A publication time is None,  *)
(* a string, a datetime or some other object.                              *)
(***************************************************************************)
PubNone == [kind |-> "none", y |-> 0, m |-> 0, d |-> 0, s |-> ""]
PubStr(s) == [kind |-> "str", y |-> 0, m |-> 0, d |-> 0, s |-> s]
PubDatetime(y, m, d) == [kind |-> "datetime", y |-> y, m |-> m, d |-> d, s |-> ""]
PubOther(n) == [kind |-> "other", y |-> n, m |-> 0, d |-> 0, s |-> ""]

\* Python truthiness of a publication time (`a.get("pub_date") or ...`).
PubTruthy(p) ==
    CASE p.kind = "none" -> FALSE
      [] p.kind = "str" -> p.s # ""
      [] p.kind = "other" -> p.y # 0
      [] OTHER -> TRUE

Pad2(n) == IF n < 10 THEN "0" \o ToString(n) ELSE ToString(n)

\* datetime.isoformat() of a date-time at midnight.
isoformat(p) ==
    ToString(p.y) \o "-" \o Pad2(p.m) \o "-" \o Pad2(p.d) \o "T00:00:00"

\* The pub_date column value insert_articles derives (db.py 331-337).
PubDateColumn(pub_date, published_at) ==
    LET p == IF PubTruthy(pub_date) THEN pub_date ELSE published_at
    IN  CASE p.kind = "none" -> Null
          [] p.kind = "str" -> p.s
          [] p.kind = "datetime" -> isoformat(p)
          [] OTHER -> ToString(p.y)

Article(url, source, portal, title, content, summary, keyword, topic, pub_date, published_at) ==
    [url |-> url, source |-> source, portal |-> portal, title |-> title,
     content |-> content, summary |-> summary, keyword |-> keyword,
     topic |-> topic, pub_date |-> pub_date, published_at |-> published_at]

\* Article dicts handed to insert_articles: the key fallbacks, a dict with
\* no url, one with an empty url, and the same URL under different fields.
Articles ==
    { Article("https://samakal.com/a", "samakal", Null, "Election", "body", Null,
              "vote", Null, PubStr("2024-01-02T00:00:00"), PubNone),
      Article("https://samakal.com/a", Null, "samakal", "ELECTION", Null, "body",
              Null, "vote", PubNone, PubDatetime(2024, 1, 2)),
      Article("https://samakal.com/b", Null, Null, "Election", Null, Null,
              Null, Null, PubNone, PubNone),
      Article(Null, "samakal", Null, "Election", "body", Null,
              Null, Null, PubNone, PubNone),
      Article("", "samakal", Null, "ELECTION", "body", Null,
              Null, Null, PubNone, PubNone) }

MaxBatch == 2

Batches == UNION {[1..n -> Articles] : n \in 0..MaxBatch}

\* The row insert_articles builds from one article dict (db.py 326-337).
ArticleRow(a) ==
    NewRow(Or(Or(a.source, a.portal), "unknown"), a.url, a.title,
           Or(a.content, a.summary), Or(a.keyword, a.topic),
           PubDateColumn(a.pub_date, a.published_at))

\* `if not url: continue` (db.py 321-324).
NoUrl(a) == Falsy(a.url)

\* Which items of a batch have no url: "none" of them, "some", or "all".
NoUrlItems(articles) ==
    LET n == Cardinality({i \in 1..Len(articles) : NoUrl(articles[i])})
    IN  IF n = 0 THEN "none" ELSE IF n = Len(articles) THEN "all" ELSE "some"

\* The loop without the url test: every item goes to the INSERT.
NoUrlNever(a) == FALSE

\* Whether the loop skips the item before it builds the row.
SkipsItem(a) == NoUrl(a)

\* The loop of insert_articles from item i on: st = [tbl, seq, inserted];
\* failing = the positions whose execute raises (caught, logged, skipped).
RECURSIVE InsertBatch(_, _, _, _)
InsertBatch(st, articles, i, failing) ==
    IF i > Len(articles) THEN st
    ELSE LET a == articles[i]
             tbl2 == IF SkipsItem(a) \/ i \in failing THEN st.tbl
                     ELSE InsertOrIgnore(st.tbl, st.seq, ArticleRow(a))
             st2 == [tbl |-> tbl2,
                     seq |-> NextSeq(st.tbl, tbl2, st.seq),
                     inserted |-> st.inserted + (IF RowCount(st.tbl, tbl2) > 0 THEN 1 ELSE 0)]
         IN  InsertBatch(st2, articles, i + 1, failing)

\* How the COMMIT that ends the batch can end: "ok"; "kept": it raised and
\* the rows stay in the open transaction; "rolled_back": it raised and the
\* batch was rolled back.  The exception leaves insert_articles (db.py 352).
CommitFaults == {"ok", "kept", "rolled_back"}

\* insert_articles(articles) -> int
insert_articles(articles, failing, commit) ==
    LET st0 == [tbl |-> news, seq |-> sqlite_seq, inserted |-> 0]
        st == InsertBatch(st0, articles, 1, failing)
        call == [op |-> "insert_articles", url |-> Null, fault |-> "ok",
                 stored_before |-> FALSE, count_before |-> Count(news),
                 nourl |-> NoUrlItems(articles),
                 differs |-> \E i \in 1..Len(articles) :
                                 DiffersFromStored(news, ArticleRow(articles[i]))]
    IN  IF Len(articles) = 0
        THEN /\ db_ret' = [kind |-> "int", val |-> 0]
             /\ db_call' = call
             /\ UNCHANGED <<news, sqlite_seq, news_fts, search_ret, workers>>
             /\ UsesConn
        ELSE /\ news' = IF commit = "rolled_back" THEN news ELSE st.tbl
             /\ news_fts' = IF commit = "rolled_back" THEN news_fts
                             ELSE news_ai(news_fts, news, st.tbl)
             /\ sqlite_seq' = IF commit = "rolled_back" THEN sqlite_seq ELSE st.seq
             /\ db_call' = [call EXCEPT !.fault = commit]
             /\ db_ret' = IF commit = "ok" THEN [kind |-> "int", val |-> st.inserted]
                          ELSE [kind |-> "raised", val |-> 0]
             /\ UNCHANGED <<search_ret, workers>>
             /\ UsesConn

(***************************************************************************)
(* search_news.  Texts are strings; the query is cut into quoted phrases   *)
(* and whitespace-separated tokens as the code cuts it.  The only          *)
(* whitespace character of the modelled queries is the space.              *)
(***************************************************************************)
Ch(s, i) == SubSeq(s, i, i)

Quote == "\""

RECURSIVE lstrip(_)
lstrip(s) == IF Len(s) > 0 /\ Ch(s, 1) = " " THEN lstrip(Tail(s)) ELSE s

RECURSIVE rstrip(_)
rstrip(s) ==
    IF Len(s) > 0 /\ Ch(s, Len(s)) = " " THEN rstrip(SubSeq(s, 1, Len(s) - 1)) ELSE s

\* str.strip()
strip(s) == rstrip(lstrip(s))

\* The position of the first quote at or after i, 0 if there is none.
NextQuote(q, i) ==
    IF \E j \in i..Len(q) : Ch(q, j) = Quote
    THEN CHOOSE j \in i..Len(q) :
             Ch(q, j) = Quote /\ \A k \in i..(j - 1) : Ch(q, k) # Quote
    ELSE 0

\* re.findall(r'"([^"]+)"', q) and re.sub(r'"[^"]+"', " ", q) in one scan
\* from position i: acc.phrases are the groups, acc.rest is q with every
\* match replaced by a space.
RECURSIVE ScanQuoted(_, _, _)
ScanQuoted(q, i, acc) ==
    IF i > Len(q) THEN acc
    ELSE IF Ch(q, i) # Quote
         THEN ScanQuoted(q, i + 1, [acc EXCEPT !.rest = @ \o Ch(q, i)])
         ELSE LET j == NextQuote(q, i + 1)
              IN  IF j > i + 1
                  THEN ScanQuoted(q, j + 1,
                                  [phrases |-> Append(acc.phrases, SubSeq(q, i + 1, j - 1)),
                                   rest |-> acc.rest \o " "])
                  ELSE ScanQuoted(q, i + 1, [acc EXCEPT !.rest = @ \o Quote])

\* [t for t in re.split(r"\s+", s) if t]: cur is the piece being read.
RECURSIVE SplitWs(_, _, _)
SplitWs(s, cur, out) ==
    IF Len(s) = 0 THEN (IF Len(cur) = 0 THEN out ELSE Append(out, cur))
    ELSE IF Ch(s, 1) = " "
         THEN SplitWs(Tail(s), "", IF Len(cur) = 0 THEN out ELSE Append(out, cur))
         ELSE SplitWs(Tail(s), cur \o Ch(s, 1), out)

\* phrases and tokens of the stripped query q (db.py 562-565).
QueryParts(q) ==
    LET sc == ScanQuoted(q, 1, [phrases |-> <<>>, rest |-> ""])
    IN  [phrases |-> sc.phrases, tokens |-> SplitWs(strip(sc.rest), "", <<>>)]

UpperLetters == <<"A", "B", "C", "D", "E", "F", "G", "H", "I", "J", "K", "L", "M",
                  "N", "O", "P", "Q", "R", "S", "T", "U", "V", "W", "X", "Y", "Z">>
LowerLetters == <<"a", "b", "c", "d", "e", "f", "g", "h", "i", "j", "k", "l", "m",
                  "n", "o", "p", "q", "r", "s", "t", "u", "v", "w", "x", "y", "z">>
Digits == {"0", "1", "2", "3", "4", "5", "6", "7", "8", "9"}

UpperSet == {UpperLetters[k] : k \in 1..26}
AlnumSet == {LowerLetters[k] : k \in 1..26} \cup UpperSet \cup Digits
FoldMap == [c \in UpperSet |-> LowerLetters[CHOOSE k \in 1..26 : UpperLetters[k] = c]]

\* ASCII case folding of one character (LIKE and the unicode61 tokenizer).
FoldChar(c) == IF c \in UpperSet THEN FoldMap[c] ELSE c

RECURSIVE Fold(_)
Fold(s) == IF Len(s) = 0 THEN "" ELSE FoldChar(Ch(s, 1)) \o Fold(Tail(s))

IsAlnum(c) == c \in AlnumSet

SubString(s, t) ==
    \E i \in 1..(Len(s) - Len(t) + 1) : SubSeq(s, i, i + Len(t) - 1) = t

\* column LIKE '%term%': NULL matches nothing, ASCII letters match in either
\* case.  (The wildcards % and _ do not occur in the modelled queries.)
Like(text, term) == text # Null /\ SubString(Fold(text), Fold(term))

\* _like_params(terms, any_mode), as the predicate the WHERE clause is.
like_params(terms, any_mode, row) ==
    IF Len(terms) = 0 THEN TRUE
    ELSE IF any_mode
         THEN \E k \in 1..Len(terms) :
                  Like(row.title, terms[k]) \/ Like(row.content, terms[k])
         ELSE \A k \in 1..Len(terms) :
                  Like(row.title, terms[k]) \/ Like(row.content, terms[k])

\* tokenize='unicode61': the maximal runs of letters and digits, folded.
RECURSIVE Tokenize(_, _, _)
Tokenize(s, cur, out) ==
    IF Len(s) = 0 THEN (IF Len(cur) = 0 THEN out ELSE Append(out, cur))
    ELSE IF IsAlnum(Ch(s, 1))
         THEN Tokenize(Tail(s), cur \o FoldChar(Ch(s, 1)), out)
         ELSE Tokenize(Tail(s), "", IF Len(cur) = 0 THEN out ELSE Append(out, cur))

Tokens(text) == IF text = Null THEN <<>> ELSE Tokenize(text, "", <<>>)

\* An FTS5 phrase matches a column that holds its tokens side by side; a
\* phrase with no token matches nothing.
PhraseInColumn(text, phrase) ==
    LET col == Tokens(text)
        ph == Tokens(phrase)
    IN  /\ Len(ph) > 0
        /\ \E i \in 1..(Len(col) - Len(ph) + 1) : SubSeq(col, i, i + Len(ph) - 1) = ph

\* The columns of news_fts (db.py 163-167).
PhraseInRow(row, phrase) ==
    \E text \in {row.title, row.content, row.topic, row.portal, row.url} :
        PhraseInColumn(text, phrase)

\* An unquoted term is an FTS5 bareword: letters, digits and "_" only, and
\* none of the operator words.
IsBareword(t) ==
    /\ Len(t) > 0
    /\ \A i \in 1..Len(t) : IsAlnum(Ch(t, i)) \/ Ch(t, i) = "_"
    /\ t \notin {"AND", "OR", "NOT"}

Strategies == {"auto", "all", "any", "phrase"}

\* The MATCH expression search_news builds (db.py 567-583), in parsed form:
\* the quoted strings, the barewords, and the operator joining them.
MatchExpr(q, strategy) ==
    LET parts == QueryParts(q)
    IN  CASE strategy = "auto" ->
                 [quoted |-> parts.phrases, bare |-> parts.tokens, op |-> "AND"]
          [] strategy = "phrase" ->
                 [quoted |-> <<q>>, bare |-> <<>>, op |-> "AND"]
          [] OTHER ->
                 [quoted |-> <<>>,
                  bare |-> IF Len(parts.tokens) > 0 THEN parts.tokens ELSE parts.phrases,
                  op |-> IF strategy = "any" THEN "OR" ELSE "AND"]

\* cur.execute(... WHERE news_fts MATCH ? ...): sqlite3.OperationalError if
\* news_fts does not exist or the expression does not parse, else the ids
\* of the indexed rows that match.
FtsExecute(idx, tbl, expr) ==
    IF ~idx.created THEN [kind |-> "OperationalError", ids |-> {}]
    ELSE IF \E k \in 1..Len(expr.bare) : ~IsBareword(expr.bare[k])
    THEN [kind |-> "OperationalError", ids |-> {}]
    ELSE LET terms == expr.quoted \o expr.bare
             hit(r) == IF expr.op = "OR"
                       THEN \E k \in 1..Len(terms) : PhraseInRow(r, terms[k])
                       ELSE \A k \in 1..Len(terms) : PhraseInRow(r, terms[k])
         IN  [kind |-> "rows", ids |-> {r.id : r \in {x \in tbl : x.id \in idx.rowids /\ hit(x)}}]

\* ORDER BY id DESC LIMIT ?
Newest(ids, limit) == {i \in ids : Cardinality({j \in ids : j > i}) < limit}

\* The except clause of search_news never taken: the index error leaves
\* the call.
SearchNoFallback(tbl, idx, query, strategy, limit) ==
    LET q == strip(query)
        m == FtsExecute(idx, tbl, MatchExpr(q, strategy))
    IN  IF Len(q) = 0 THEN [path |-> "empty", ids |-> {}]
        ELSE IF m.kind = "rows" THEN [path |-> "fts", ids |-> Newest(m.ids, limit)]
        ELSE [path |-> "raised", ids |-> {}]

\* search_news(query, strategy, limit=limit): the path taken and the ids of
\* the rows returned.
SearchNews(tbl, idx, query, strategy, limit) ==
    LET q == strip(query)
        parts == QueryParts(q)
        m == FtsExecute(idx, tbl, MatchExpr(q, strategy))
        terms == parts.phrases \o parts.tokens
    IN  IF Len(q) = 0 THEN [path |-> "empty", ids |-> {}]
        ELSE IF m.kind = "rows" THEN [path |-> "fts", ids |-> Newest(m.ids, limit)]
        ELSE [path |-> "like",
              ids |-> Newest({r.id : r \in {x \in tbl : like_params(terms, strategy = "any", x)}},
                             limit)]

\* Queries: a substring of a stored content that is no token of it, a
\* token, a title and a token, a quoted phrase with a token, a term that is
\* no bareword, a blank query, a token of the stored portals and URLs.
Queries == {" od", "body", "Election body", "\"lection\" bo", "body.", " ", "samakal"}

\* The rows whose content holds the stripped query as a substring.
ContentHits(tbl, query) ==
    {r \in tbl : r.content # Null /\ SubString(r.content, strip(query))}

DefaultLimit == 50

Limits == {1, DefaultLimit}

\* search_ret also records what the MATCH query did ("n/a": not executed),
\* the ids of the rows whose content held the query when it ran, and how
\* often the process has logged "FTS search failed ..., falling back to
\* LIKE" so far (warned; 2: more than once).
NoSearch == [query |-> Null, strategy |-> "auto", limit |-> DefaultLimit,
             path |-> "none", ids |-> {}, fts |-> "n/a", hits |-> {}, warned |-> 0]

\* search_news, `except sqlite3.OperationalError`: the warning is logged by
\* every call that falls back.
WarnFtsFailed(path, warned) == IF path = "like" THEN Inc2(warned) ELSE warned

search_news(query, strategy, limit) ==
    LET ret == SearchNews(news, news_fts, query, strategy, limit)
        q == strip(query)
    IN  /\ search_ret' = [query |-> query, strategy |-> strategy, limit |-> limit,
                          path |-> ret.path, ids |-> ret.ids,
                          fts |-> IF Len(q) = 0 THEN "n/a"
                                  ELSE FtsExecute(news_fts, news, MatchExpr(q, strategy)).kind,
                          hits |-> {r.id : r \in ContentHits(news, query)},
                          warned |-> WarnFtsFailed(ret.path, search_ret.warned)]
        /\ UNCHANGED <<news, sqlite_seq, news_fts, db_call, db_ret, workers>>
        /\ UsesConn

(***************************************************************************)
(* Two workers on the same URL: each calls exists(url) and, if it answers  *)
(* False, insert_news(url).  The workers are two threads of one process,   *)
(* which share the connection _CONN (check_same_thread=False), or two      *)
(* processes, each with its own connection to the database file.  A step   *)
(* is one statement: the SELECT of exists, the INSERT, the COMMIT.         *)
(***************************************************************************)
Workers == {1, 2}

WorkerModes == {"threads", "processes"}

\* workers: pending = the row the writer's open transaction holds and the
\* other connection does not see yet (processes), writer = the worker that
\* holds the write lock (0: none), failed = some statement raised.
NoWorkers ==
    [mode |-> "none", url |-> Null,
     pc |-> [w \in Workers |-> "idle"],
     saw |-> [w \in Workers |-> "n/a"],
     rowcount |-> [w \in Workers |-> 0],
     ret |-> [w \in Workers |-> "n/a"],
     writer |-> 0, pending |-> {}, failed |-> FALSE]

\* The row worker w inserts: same URL, the title in its own casing.
WorkerRow(w, url) ==
    NewRow("samakal", url, IF w = 1 THEN "Election" ELSE "ELECTION", "body", Null, Null)

\* The rows the connection of worker w reads.
WorkerView(wk, tbl, w) ==
    IF wk.mode = "processes" /\ wk.writer = w THEN tbl \cup wk.pending ELSE tbl

\* The INSERT of a worker that trusts its exists() check: no conflict clause.
WorkerInsertUnchecked(tbl, seq, row) == InsertAlways(tbl, seq, row)

\* The INSERT statement of insert_news, as a worker runs it.
WorkerInsert(tbl, seq, row) == InsertOrIgnore(tbl, seq, row)

\* The two workers start on one URL.
workers_begin(mode, url) ==
    /\ workers.mode = "none"
    /\ workers' = [NoWorkers EXCEPT !.mode = mode, !.url = url,
                                    !.pc = [w \in Workers |-> "exists"]]
    /\ UNCHANGED <<news, sqlite_seq, news_fts, db_call, db_ret, search_ret,
                   conn, backfill>>

\* exists(url): SELECT 1 FROM news WHERE url = ? LIMIT 1.  A worker that
\* reads True does not insert.
worker_exists(w) ==
    LET found == Stored(WorkerView(workers, news, w), workers.url)
    IN  /\ workers.pc[w] = "exists"
        /\ workers' = [workers EXCEPT !.saw[w] = IF found THEN "True" ELSE "False",
                                      !.pc[w] = IF found THEN "done" ELSE "insert"]
        /\ UNCHANGED <<news, sqlite_seq, news_fts, db_call, db_ret, search_ret>>
        /\ UsesConn

\* insert_news, cur.execute(INSERT OR IGNORE ...): the statement raises
\* (fault "execute"; for two processes also when the other one holds the
\* write lock until the busy timeout) and insert_news returns False, or it
\* runs.  Threads write into the transaction of the shared connection; a
\* process writes into its own transaction once it has the write lock.
worker_execute(w, fault) ==
    LET row == WorkerRow(w, workers.url)
        view == WorkerView(workers, news, w)
        tbl2 == WorkerInsert(view, sqlite_seq, row)
        locked == workers.mode = "processes" /\ workers.writer \notin {0, w}
    IN  /\ workers.pc[w] = "insert"
        /\ locked => fault = "execute"
        /\ IF fault = "execute"
           THEN /\ workers' = [workers EXCEPT !.pc[w] = "done", !.ret[w] = "False",
                                              !.failed = TRUE]
                /\ UNCHANGED <<news, sqlite_seq, news_fts>>
           ELSE /\ workers' = [workers EXCEPT
                                   !.pc[w] = "commit",
                                   !.rowcount[w] = RowCount(view, tbl2),
                                   !.writer = IF workers.mode = "processes" THEN w ELSE @,
                                   !.pending = IF workers.mode = "processes"
                                               THEN tbl2 \ news ELSE @]
                /\ news' = IF workers.mode = "threads" THEN tbl2 ELSE news
                /\ news_fts' = IF workers.mode = "threads"
                               THEN news_ai(news_fts, news, tbl2) ELSE news_fts
                /\ sqlite_seq' = NextSeq(view, tbl2, sqlite_seq)
        /\ UNCHANGED <<db_call, db_ret, search_ret>>
        /\ UsesConn

\* insert_news, conn.commit() and the return: inserted = cur.rowcount > 0,
\* or False when the COMMIT raised (the row stays in the open transaction).
worker_commit(w, fault) ==
    LET committed == workers.mode = "processes" /\ fault = "ok"
    IN  /\ workers.pc[w] = "commit"
        /\ workers' = [workers EXCEPT
                           !.pc[w] = "done",
                           !.ret[w] = IF fault = "ok" /\ workers.rowcount[w] > 0
                                      THEN "True" ELSE "False",
                           !.failed = @ \/ fault # "ok",
                           !.writer = IF committed THEN 0 ELSE @,
                           !.pending = IF committed THEN {} ELSE @]
        /\ news' = IF committed THEN news \cup workers.pending ELSE news
        /\ news_fts' = IF committed
                       THEN news_ai(news_fts, news, news \cup workers.pending)
                       ELSE news_fts
        /\ UNCHANGED <<sqlite_seq, db_call, db_ret, search_ret>>
        /\ UsesConn

(***************************************************************************)
(*                     config/portals.py : PORTALS                         *)
(* One portal of every scrape_mode of the registry, a disabled portal, and *)
(* "example": a hybrid portal with a hard domain, the configuration        *)
(* HybridScraper supports (hard_domains of any portal) and the registry    *)
(* does not use today.  Feed lists are cut to at most two feeds.           *)
(***************************************************************************)
PortalOrder == <<"bdnews24", "prothomalo", "risingbd", "samakal", "channel24", "example">>

PortalIds == {PortalOrder[i] : i \in 1..Len(PortalOrder)}

PORTALS ==
    [p \in PortalIds |->
        CASE p = "bdnews24" ->
                [rss |-> <<"https://bdnews24.com/feed/rss.xml">>, enabled |-> TRUE,
                 scrape_mode |-> "browser", hard_domains |-> {"bdnews24.com"}]
          [] p = "prothomalo" ->
                [rss |-> <<"https://en.prothomalo.com/rss">>, enabled |-> TRUE,
                 scrape_mode |-> "rss_only",
                 hard_domains |-> {"prothomalo.com", "en.prothomalo.com"}]
          [] p = "risingbd" ->
                [rss |-> <<"https://www.risingbd.com/rss.xml",
                           "https://www.risingbd.com/rss/rss.xml">>, enabled |-> TRUE,
                 scrape_mode |-> "simple", hard_domains |-> {}]
          [] p = "samakal" ->
                [rss |-> <<"https://samakal.com/rss.xml">>, enabled |-> TRUE,
                 scrape_mode |-> "hybrid", hard_domains |-> {}]
          [] p = "channel24" ->
                [rss |-> <<>>, enabled |-> FALSE,
                 scrape_mode |-> "browser", hard_domains |-> {}]
          [] OTHER ->
                [rss |-> <<>>, enabled |-> TRUE,
                 scrape_mode |-> "hybrid", hard_domains |-> {"example.com"}]]

\* iter_enabled_portals() followed by the rss loop of collect(): the feeds
\* of a pass, in order, each with its portal.
RECURSIVE FeedsFrom(_)
FeedsFrom(i) ==
    IF i > Len(PortalOrder) THEN <<>>
    ELSE LET p == PortalOrder[i]
             mine == IF PORTALS[p].enabled
                     THEN [k \in 1..Len(PORTALS[p].rss) |->
                              [portal |-> p, rss_url |-> PORTALS[p].rss[k]]]
                     ELSE <<>>
         IN  mine \o FeedsFrom(i + 1)

Feeds == FeedsFrom(1)

(***************************************************************************)
(*                  utils/state_manager.py : StateManager                  *)
(***************************************************************************)

\* hashlib.md5(url).hexdigest(), abbreviated to its first 8 hex digits.
Hash(url) ==
    CASE url = "https://example.com/x" -> "a5ea1d3c"
      [] url = "https://samakal.com/a" -> "0c6f4e07"
      [] url = "https://samakal.com/b" -> "f1d2b98e"
      [] OTHER -> "d41d8cd9"

\* A registry that reports nothing as seen.
seen_never(set, url) == FALSE

\* StateManager.seen(url)
seen(set, url) == Hash(url) \in set

\* How _save can end: "ok": the file holds the sorted set; "unchanged": the
\* directory or the file could not be opened (OSError, logged); "partial":
\* the file was opened for writing (truncated) and the dump failed.
SaveOutcomes == {"ok", "unchanged", "partial"}

\* StateManager._save()
save(set, file, outcome) ==
    CASE outcome = "ok" -> [kind |-> "list", hashes |-> set]
      [] outcome = "partial" -> [kind |-> "corrupt", hashes |-> {}]
      [] OTHER -> file

\* StateManager.mark_seen(url) on st = [seen, file]
mark_seen(st, url, outcome) ==
    IF Hash(url) \in st.seen THEN st
    ELSE [seen |-> st.seen \cup {Hash(url)},
          file |-> save(st.seen \cup {Hash(url)}, st.file, outcome)]

\* StateManager._load(): the set a new process starts with. readable = FALSE:
\* opening or reading the file raises OSError.
load(file, readable) ==
    IF file.kind = "missing" THEN {}
    ELSE IF ~readable THEN {}
    ELSE IF file.kind = "list" THEN file.hashes
    ELSE {}

(***************************************************************************)
(*                       core/rss_collector.py                             *)
(***************************************************************************)

\* A feed entry: its link (or none) and its date fields; published_parsed
\* is a (year, month, day) time struct or absent (year 0).
Entry(link, y, m, d, published) ==
    [link |-> link, py |-> y, pm |-> m, pd |-> d, published |-> published]

Entries ==
    { Entry("https://example.com/x", 2024, 1, 2, Null),
      Entry("https://samakal.com/a", 0, 0, 0, "Tue, 02 Jan 2024"),
      Entry(Null, 0, 0, 0, Null) }

MaxEntries == 2

\* A feed URL and what _load_feed makes of it.  ok = FALSE: it returns None
\* (HTTP or decode error, feedparser.parse raised); ok = TRUE: it returns
\* the feed feedparser.parse built.  bozo: feedparser flagged the document
\* as not well-formed (_load_feed logs a warning and returns the feed all
\* the same).  entries: the entries of the document behind the URL.
FeedResults ==
    {[ok |-> o, bozo |-> b, entries |-> e] :
        o \in BOOLEAN, b \in BOOLEAN,
        e \in UNION {[1..n -> Entries] : n \in 0..MaxEntries}}

\* The feeds that are well-formed, and the feeds that could not be loaded
\* and have nothing to offer.
CleanFeedResults ==
    {feed \in FeedResults : ~feed.bozo /\ (feed.ok \/ Len(feed.entries) = 0)}

\* collect() that walks the entries of a feed whatever _load_feed returned.
FeedEntriesUnchecked(feed) == feed.entries

\* feed = _load_feed(rss_url); `if feed is None: continue`; else
\* getattr(feed, "entries", []).
FeedEntries(feed) == IF feed.ok THEN feed.entries ELSE <<>>

NoFeedTrace == [malformed |-> {}, failed |-> {}, skipped |-> FALSE]

\* _parse_rss_date(entry)
parse_rss_date(e) ==
    IF e.py # 0 THEN isoformat([y |-> e.py, m |-> e.pm, d |-> e.pd])
    ELSE e.published

\* The entry loop of collect() from entry i on (rss_collector.py 195-215);
\* st = [seen, file, results, marked, skipped]; outcome is how the _save
\* calls of this feed end.
RECURSIVE CollectEntries(_, _, _, _, _)
CollectEntries(st, portal, entries, i, outcome) ==
    IF i > Len(entries) THEN st
    ELSE LET e == entries[i]
             reg == mark_seen([seen |-> st.seen, file |-> st.file], e.link, outcome)
             st2 == IF Falsy(e.link) THEN st
                    ELSE IF seen(st.seen, e.link)
                    THEN [st EXCEPT !.skipped = @ \cup {e.link}]
                    ELSE [seen |-> reg.seen, file |-> reg.file,
                          results |-> Append(st.results,
                                             [source |-> portal, link |-> e.link,
                                              rss_date |-> parse_rss_date(e)]),
                          marked |-> st.marked \cup {e.link},
                          skipped |-> st.skipped]
         IN  CollectEntries(st2, portal, entries, i + 1, outcome)

\* collect(): entry; the result list starts empty.
CollectBegin ==
    /\ collect_pos = 0
    /\ collect_pos' = 1
    /\ results' = <<>>
    /\ marked_prior' = marked_prior \cup marked_pass
    /\ marked_pass' = {}
    /\ skipped_pass' = {}
    /\ feed_trace' = NoFeedTrace
    /\ UNCHANGED <<seen_set, state_file>>
    /\ UNCHANGED <<dbVars, fetchVars, runVars>>

\* collect(): one iteration of the rss_url loop: _load_feed returned feed,
\* its entries are walked.
collect_feed(feed, outcome) ==
    /\ collect_pos \in 1..Len(Feeds)
    /\ LET st == CollectEntries([seen |-> seen_set, file |-> state_file,
                                  results |-> results, marked |-> marked_pass,
                                  skipped |-> skipped_pass],
                                 Feeds[collect_pos].portal,
                                 FeedEntries(feed), 1, outcome)
        IN  /\ seen_set' = st.seen
            /\ state_file' = st.file
            /\ results' = st.results
            /\ marked_pass' = st.marked
            /\ skipped_pass' = st.skipped
            /\ feed_trace' =
                   [malformed |-> IF feed.ok /\ feed.bozo
                                  THEN feed_trace.malformed \cup (st.marked \ marked_pass)
                                  ELSE feed_trace.malformed,
                    failed |-> IF ~feed.ok
                               THEN feed_trace.failed \cup (st.marked \ marked_pass)
                               ELSE feed_trace.failed,
                    skipped |-> feed_trace.skipped
                                \/ (~feed.ok /\ Len(feed.entries) > 0
                                    /\ Len(st.results) = Len(results))]
    /\ collect_pos' = collect_pos + 1
    /\ UNCHANGED marked_prior
    /\ UNCHANGED <<dbVars, fetchVars, runVars>>

\* A feed of the pass that is not malformed.  (A malformed feed differs
\* from a well-formed one with the same entries by a log line only, a feed
\* that could not be loaded from an empty one likewise.)
CollectFeed ==
    \E feed \in CleanFeedResults, outcome \in SaveOutcomes : collect_feed(feed, outcome)

\* A feed of the pass, well-formed or not.
CollectAnyFeed ==
    \E feed \in FeedResults, outcome \in SaveOutcomes : collect_feed(feed, outcome)

\* collect(): all feeds done, the result list is returned.
CollectReturn ==
    /\ collect_pos = Len(Feeds) + 1
    /\ collect_pos' = 0
    /\ UNCHANGED <<seen_set, state_file, results, marked_prior, marked_pass, skipped_pass,
                   feed_trace>>
    /\ UNCHANGED <<dbVars, fetchVars, runVars>>

(***************************************************************************)
(*        scrapers/base/base_scraper.py, browser_scraper.py : pacing       *)
(* Time is counted in ticks of half a second.  Of _last_request_ts the     *)
(* model keeps the netlocs that have an entry; what the clock says about   *)
(* an entry's age (time.time() - last) is an input of _sleep_if_needed.    *)
(***************************************************************************)
\* `last_ts is None`: the netloc has no recorded request.
NoTs == -1

\* The largest age of a recorded request that the clock is read with.
MaxElapsed == 6

Elapsed == 0..MaxElapsed

\* BaseScraper: min_delay = 1.5 s, max_delay = 4.0 s, max_retries = 3
BaseMinDelay == 3
BaseMaxDelay == 8
BaseMaxRetries == 3

\* BrowserScraper: min_delay = 3.0 s, max_delay = 7.0 s, max_retries = 2
BrowserMinDelay == 6
BrowserMaxDelay == 14
BrowserMaxRetries == 2

\* The values of random.uniform(min_delay, max_delay) the model draws.
BaseTargets == {BaseMinDelay, BaseMaxDelay}
BrowserTargets == {BrowserMinDelay, BrowserMaxDelay}

\* The article URLs the fetch calls are made with, one per netloc.
FetchUrls == {"https://example.com/x", "https://samakal.com/a"}

\* _update_last_ts(netloc)
update_last_ts(recorded, nl) == recorded \cup {nl}

\* A fetcher that never waits.
NoSleepDelay(has_last, elapsed, target) == 0

\* BaseScraper._sleep_if_needed: the delay it sleeps (0: no sleep).
BaseSleepDelay(has_last, elapsed, target) ==
    IF ~has_last THEN 0
    ELSE IF elapsed < target THEN target - elapsed ELSE 0

\* BrowserScraper._sleep_if_needed
BrowserSleepDelay(has_last, elapsed, target) ==
    IF ~has_last THEN 0
    ELSE IF elapsed < target THEN target - elapsed ELSE 0

\* The age of the netloc's recorded request when _sleep_if_needed returns and
\* the first request of the call goes out; NoTs when there is none.
GapAfterSleep(has_last, elapsed, delay) ==
    IF has_last THEN elapsed + delay ELSE NoTs

(***************************************************************************)
(*                 HTTP responses and rendered pages                       *)
(***************************************************************************)

\* str.lower() on the page texts of the model.
Lower(text) ==
    CASE text = "CLOUDFLARE" -> "cloudflare"
      [] text = "Just a moment" -> "just a moment"
      [] OTHER -> text

\* A page text is plain ("") or carries one marker phrase.
PageTexts == {"", "CLOUDFLARE", "Just a moment", "captcha", "incapsula"}

\* `phrase in txt` for a lowered page text.
Contains(lowered, phrase) == lowered = phrase

BaseBlockPhrases ==
    {"cloudflare", "attention required", "verify you are human",
     "are you a robot", "just a moment", "checking your browser"}

BrowserBlockPhrases ==
    {"cloudflare", "verify you are human", "checking your browser",
     "access denied", "bot detection", "captcha"}

HybridBlockPhrases ==
    {"access denied", "request blocked", "just a moment", "cloudflare",
     "incapsula", "are you a robot", "verify you are human",
     "checking your browser", "to continue, please verify", "bot detection",
     "captcha"}

BLOCK_STATUS_CODES == {403, 429, 503, 520, 521, 522}

MinBlockHtmlLen == 2000

HtmlLens == {50, 2000}

\* The Retry-After header: absent, an integer of seconds, or not an integer
\* (an HTTP-date).
NoRetryAfter == [present |-> FALSE, int |-> TRUE, val |-> 0]
RetryAfterInt(n) == [present |-> TRUE, int |-> TRUE, val |-> n]
RetryAfterDate == [present |-> TRUE, int |-> FALSE, val |-> 0]

RetryAfterHeaders == {NoRetryAfter, RetryAfterInt(0), RetryAfterInt(1), RetryAfterDate}

Response(status, len, text, retry_after) ==
    [kind |-> "response", status |-> status, len |-> len, text |-> text,
     retry_after |-> retry_after]

\* requests.RequestException raised by session.get
NetworkError == [kind |-> "error", status |-> 0, len |-> 0, text |-> "",
                 retry_after |-> NoRetryAfter]

\* What one session.get can bring.
HttpOutcomes ==
    {NetworkError}
    \cup {Response(200, n, t, NoRetryAfter) : n \in HtmlLens, t \in PageTexts}
    \cup {Response(st, 50, "", h) : st \in {403, 429}, h \in RetryAfterHeaders}
    \cup {Response(st, 50, "", NoRetryAfter) : st \in {301, 404, 500, 503}}

\* What one navigation of the rendering fetcher can bring: a page (possibly
\* empty), a timeout, or another engine error.
BrowserOutcomes ==
    {[kind |-> "page", len |-> n, text |-> t] : n \in {2000}, t \in PageTexts}
    \cup {[kind |-> "page", len |-> 0, text |-> ""],
          [kind |-> "timeout", len |-> 0, text |-> ""],
          [kind |-> "error", len |-> 0, text |-> ""]}

\* Seconds in ticks.
TicksPerSecond == 2

\* time.sleep(5 * attempt), the factor in ticks.
RateLimitBackoff == 10

\* time.sleep(2 * attempt) after another status or a network error, the
\* factor in ticks.
ErrorBackoff == 4

\* The 403/429 branch of BaseScraper.get, for a header value that int()
\* accepted: sleep retry_after seconds if it is > 0, else 5 * attempt.
RetryWait(ra, n) ==
    IF ra.val > 0 THEN TicksPerSecond * ra.val ELSE RateLimitBackoff * n

\* int(resp.headers.get("Retry-After", "0")): "ok" with the value, or
\* ValueError.
ParseRetryAfter(h) ==
    IF ~h.present THEN [ok |-> TRUE, val |-> 0]
    ELSE IF h.int THEN [ok |-> TRUE, val |-> h.val]
    ELSE [ok |-> FALSE, val |-> 0]

\* The heuristic of BaseScraper.get without .lower().
BaseIsBlockPageCaseSensitive(text) ==
    \E k \in BaseBlockPhrases : Contains(text, k)

\* BaseScraper.get, 200 branch: the block-page heuristic.
BaseIsBlockPage(text) ==
    \E k \in BaseBlockPhrases : Contains(Lower(text), k)

\* BrowserScraper._is_block_page
BrowserIsBlockPage(text) ==
    \E k \in BrowserBlockPhrases : Contains(Lower(text), k)

\* _looks_like_block_page whose length test is `<=`.
looks_like_block_page_inclusive(len, text) ==
    \/ len = 0
    \/ len <= MinBlockHtmlLen
    \/ \E k \in HybridBlockPhrases : Contains(Lower(text), k)

\* HybridScraper._looks_like_block_page
looks_like_block_page(len, text) ==
    \/ len = 0
    \/ len < MinBlockHtmlLen
    \/ \E k \in HybridBlockPhrases : Contains(Lower(text), k)

\* The HTML of a 200 response that BaseScraper.get returned: shorter than the
\* minimum length, or long with or without a keyword of the hybrid's list.
PageKind(len, text) ==
    IF len < MinBlockHtmlLen THEN "short"
    ELSE IF Lower(text) \in HybridBlockPhrases THEN "long_keyword" ELSE "long_plain"

\* The page text holds, in some casing, a phrase of the HTTP fetcher's list.
HoldsBasePhrase(text) == Lower(text) \in BaseBlockPhrases

(***************************************************************************)
(*              core/article_fetcher.py : the coordinator                  *)
(***************************************************************************)
ReqPortals == PortalIds \cup {"nosuch"}

\* fetch_article_soup with the rss_only test left out.
ModeRouteNoRssOnly(known, enabled, mode) ==
    IF ~known \/ ~enabled THEN "none"
    ELSE IF mode = "simple" THEN "simple" ELSE "hybrid"

\* fetch_article_soup with the simple test left out.
ModeRouteNoSimple(known, enabled, mode) ==
    IF ~known \/ ~enabled \/ mode = "rss_only" THEN "none" ELSE "hybrid"

\* fetch_article_soup (165-197): what the portal's configuration selects:
\* "none" (return None), "simple" (_BASE.fetch_html) or "hybrid".
ModeRoute(known, enabled, mode) ==
    IF ~known THEN "none"
    ELSE IF ~enabled THEN "none"
    ELSE IF mode = "rss_only" THEN "none"
    ELSE IF mode = "simple" THEN "simple"
    ELSE "hybrid"

\* HybridScraper.fetch_html without the hard-domain shortcut.
HybridRouteNoHardDomain(mode, nl, hard_domains, has_browser) ==
    IF mode = "browser" THEN "browser" ELSE "base"

\* HybridScraper.fetch_html with the browser-only branch left out.
HybridRouteNoBrowserMode(mode, nl, hard_domains, has_browser) ==
    IF mode = "auto" /\ nl \in hard_domains /\ has_browser THEN "browser" ELSE "base"

\* HybridScraper.fetch_html (105-130): which fetcher goes first.
HybridRoute(mode, nl, hard_domains, has_browser) ==
    IF mode = "auto" /\ nl \in hard_domains /\ has_browser THEN "browser"
    ELSE IF mode = "browser" THEN (IF has_browser THEN "browser" ELSE "raise")
    ELSE "base"

\* HybridScraper.fetch_html that returns the HTTP result whatever it is.
AutoNeverEscalates(has_soup, blocked, has_browser) == "return"

\* HybridScraper.fetch_html (136-156), auto mode after the HTTP attempt:
\* return the soup, or escalate to the rendering fetcher.
AutoDecision(has_soup, blocked, has_browser) ==
    IF has_soup /\ ~blocked THEN "return"
    ELSE IF has_browser THEN "escalate"
    ELSE "return"

NoReq == [portal |-> "", url |-> "", via |-> "idle", hmode |-> "n/a"]

NoResult == [val |-> "pending", from |-> "none"]

\* What a call has done so far: the requests each fetcher issued, the calls
\* to the rendering fetcher, the attempts to start a session, what
\* BaseScraper.get and BrowserScraper.fetch_html returned, the status of the
\* last HTTP response (0: none) and whether its body held a block-page
\* phrase of the HTTP fetcher in any casing (render_block_text: the same
\* for the page the rendering fetcher returned), how the hybrid classified
\* the HTTP attempt and what kind of page it had to classify, the
\* Retry-After header of a 403/429 response that is followed by another
\* attempt or by an exception, the time get slept after the last HTTP
\* attempt (0: it returned at once; NoTs: no attempt yet, or the attempt
\* raised), and, while the first request of a fetcher is about to go out,
\* whether _sleep_if_needed slept, the age of the netloc's recorded
\* request, and whether the last HTTP attempt of the call, if there was
\* one, is at least the HTTP fetcher's min_delay old (cross_paced).
NoTrace ==
    [http_attempts |-> 0, render_attempts |-> 0, render_calls |-> 0,
     start_attempts |-> 0, hybrid |-> FALSE,
     get_outcome |-> "n/a", last_status |-> 0, block_text |-> FALSE,
     render_block_text |-> FALSE, retry_after |-> NoRetryAfter, wait |-> NoTs,
     blocked |-> "n/a", base_soup |-> FALSE, page |-> "n/a", browser_ret |-> "n/a",
     slept |-> FALSE, gap |-> NoTs, cross_paced |-> TRUE]

ResNone(from) == [val |-> "none", from |-> from]
ResSoup(from) == [val |-> "soup", from |-> from]

\* _get_browser() without its first test: a session is started whenever a
\* portal has no cached HybridScraper.
NeedsStartPerPortal(browser) == TRUE

\* _get_browser(): a session is started only while _BROWSER is None.
NeedsStart(browser) == browser = "none"

\* session: started = some session was started; live = successful session
\* starts since the last shutdown(); exits = __exit__ calls on the newest
\* session; calls = shutdown() calls since the newest session started;
\* lost = the reference to a session was dropped without __exit__;
\* unavailable = how often the process has logged "Hybrid/browser
\* unavailable -> fallback simple" so far; orphaned = a start failed after
\* sync_playwright().start() had returned, and what it had started is open
\* with no reference left to it.
NoSession == [started |-> FALSE, live |-> 0, exits |-> 0, calls |-> 0, lost |-> FALSE,
              unavailable |-> 0, orphaned |-> FALSE]

\* _get_browser, `except Exception` around BrowserScraperImpl(...) and
\* browser.__enter__(): the exception is logged and None returned; the
\* BrowserScraper object, with whatever __enter__ had started (partway: the
\* driver, perhaps the browser and the context), is dropped.
StartFailed(ss, partway) == [ss EXCEPT !.orphaned = @ \/ partway]

\* fetch_article_soup, `if hybrid is None`: the warning is logged by every
\* call that takes the fallback.
WarnUnavailable(route, ss) ==
    IF route = "fallback" THEN [ss EXCEPT !.unavailable = Inc2(@)] ELSE ss

\* browser.__enter__() returned and _BROWSER = browser: the reference to an
\* open session that was still held is overwritten.
SessionStarted(ss) ==
    [ss EXCEPT !.started = TRUE, !.live = Inc2(@), !.exits = 0, !.calls = 0,
               !.lost = @ \/ (ss.live > 0 /\ ss.exits = 0)]

\* shutdown() that calls __exit__ whatever _BROWSER is.
ShutdownAlwaysCloses(browser, exit_ok, ss) ==
    [browser |-> "none", hybrids |-> {},
     session |-> [ss EXCEPT !.live = 0, !.calls = Inc2(@), !.exits = Inc2(@)]]

\* shutdown() that leaves _HYBRID_BY_PORTAL as it is.
ShutdownKeepsHybrids(browser, exit_ok, ss) ==
    [browser |-> "none", hybrids |-> HYBRID_BY_PORTAL,
     session |-> [ss EXCEPT !.live = 0, !.calls = Inc2(@),
                            !.exits = IF browser # "none" THEN Inc2(@) ELSE @]]

\* shutdown(): __exit__ on the open session (exit_ok: whether it returns or
\* raises; the exception is caught and logged), then _BROWSER = None and
\* _HYBRID_BY_PORTAL = {}.
Shutdown(browser, exit_ok, ss) ==
    [browser |-> "none", hybrids |-> {},
     session |-> [ss EXCEPT !.live = 0, !.calls = Inc2(@),
                            !.exits = IF browser # "none" THEN Inc2(@) ELSE @]]

\* shutdown() called between two fetch_article_soup calls.
shutdown(exit_ok) ==
    LET sd == Shutdown(BROWSER, exit_ok, session)
    IN  /\ fetch_pc = "idle"
        /\ BROWSER' = sd.browser
        /\ HYBRID_BY_PORTAL' = sd.hybrids
        /\ session' = sd.session
        /\ browser_last_ts' = {}
        /\ UNCHANGED <<fetch_pc, req, attempt, base_last_ts, result, trace>>

\* The interpreter exits and runs the atexit hook: shutdown(); the state
\* of the process is gone.
process_exit(exit_ok) ==
    LET sd == Shutdown(BROWSER, exit_ok, session)
    IN  /\ fetch_pc # "exited"
        /\ fetch_pc' = "exited"
        /\ BROWSER' = sd.browser
        /\ HYBRID_BY_PORTAL' = sd.hybrids
        /\ session' = sd.session
        /\ req' = NoReq
        /\ attempt' = 0
        /\ base_last_ts' = {}
        /\ browser_last_ts' = {}
        /\ result' = NoResult
        /\ trace' = NoTrace

\* fetch_article_soup that gives up when _get_hybrid returns None.
NoHybridGivesUp(have_hybrid) == IF have_hybrid THEN "hybrid" ELSE "none"

\* fetch_article_soup, hybrid or browser mode: with a HybridScraper the
\* request goes to it, with none (`hybrid is None`) to _BASE.fetch_html.
HybridOrFallback(have_hybrid) == IF have_hybrid THEN "hybrid" ELSE "fallback"

\* fetch_article_soup(portal, url) up to its first wait: the mode dispatch,
\* _get_hybrid / _get_browser (start_ok: whether a session start succeeds;
\* partway: whether a start that fails does so after the driver started),
\* HybridScraper.fetch_html's choice of the first fetcher.
FetchArticleSoup(portal, url, start_ok, partway) ==
    LET known == portal \in PortalIds
        cfg == IF known THEN PORTALS[portal] ELSE PORTALS["channel24"]
        mroute == ModeRoute(known, cfg.enabled, cfg.scrape_mode)
        cached == portal \in HYBRID_BY_PORTAL
        starts == ~cached /\ NeedsStart(BROWSER)
        browser2 == IF starts /\ start_ok THEN "open" ELSE BROWSER
        have_hybrid == cached \/ browser2 = "open"
        route == IF mroute = "hybrid" THEN HybridOrFallback(have_hybrid) ELSE mroute
        hmode == IF cfg.scrape_mode = "browser" THEN "browser" ELSE "auto"
        first == HybridRoute(hmode, netloc(url), cfg.hard_domains, TRUE)
        tr == [NoTrace EXCEPT !.start_attempts = IF starts THEN 1 ELSE 0,
                              !.hybrid = have_hybrid]
    IN  /\ fetch_pc = "idle"
        /\ attempt' = 0
        /\ UNCHANGED <<base_last_ts, browser_last_ts>>
        /\ session' = IF mroute = "hybrid" /\ starts
                      THEN IF start_ok THEN SessionStarted(session)
                           ELSE WarnUnavailable(route, StartFailed(session, partway))
                      ELSE WarnUnavailable(route, session)
        /\ CASE route = "none" ->
                  /\ fetch_pc' = "done"
                  /\ req' = [portal |-> portal, url |-> url, via |-> "none", hmode |-> "n/a"]
                  /\ result' = ResNone("none")
                  /\ trace' = NoTrace
                  /\ UNCHANGED <<BROWSER, HYBRID_BY_PORTAL>>
             [] route = "simple" ->
                  /\ fetch_pc' = "base_sleep"
                  /\ req' = [portal |-> portal, url |-> url, via |-> "simple", hmode |-> "n/a"]
                  /\ result' = NoResult
                  /\ trace' = NoTrace
                  /\ UNCHANGED <<BROWSER, HYBRID_BY_PORTAL>>
             [] route = "fallback" ->
                  /\ fetch_pc' = "base_sleep"
                  /\ req' = [portal |-> portal, url |-> url, via |-> "fallback", hmode |-> "n/a"]
                  /\ result' = NoResult
                  /\ trace' = tr
                  /\ UNCHANGED <<BROWSER, HYBRID_BY_PORTAL>>
             [] route = "hybrid" ->
                  /\ BROWSER' = browser2
                  /\ HYBRID_BY_PORTAL' = HYBRID_BY_PORTAL \cup {portal}
                  /\ req' = [portal |-> portal, url |-> url, via |-> "hybrid", hmode |-> hmode]
                  /\ CASE first = "browser" ->
                            /\ fetch_pc' = "browser_sleep"
                            /\ result' = NoResult
                            /\ trace' = [tr EXCEPT !.render_calls = 1]
                       [] first = "base" ->
                            /\ fetch_pc' = "base_sleep"
                            /\ result' = NoResult
                            /\ trace' = tr
                       [] OTHER ->
                            /\ fetch_pc' = "done"
                            /\ result' = ResNone("none")
                            /\ trace' = tr

\* BaseScraper.get: _sleep_if_needed(netloc), reading the clock as elapsed
\* and drawing target = random.uniform(min_delay, max_delay).
BaseSleepIfNeeded(elapsed, target) ==
    LET has_last == netloc(req.url) \in base_last_ts
        d == BaseSleepDelay(has_last, elapsed, target)
    IN  /\ fetch_pc = "base_sleep"
        /\ fetch_pc' = "base_attempt"
        /\ attempt' = 1
        /\ trace' = [trace EXCEPT !.slept = d > 0,
                                  !.gap = GapAfterSleep(has_last, elapsed, d)]
        /\ UNCHANGED <<req, BROWSER, HYBRID_BY_PORTAL, session, result,
                       base_last_ts, browser_last_ts>>

\* The state after BaseScraper.get returned r ("resp", "none", "raised") to
\* its caller: BaseScraper.fetch_html under fetch_article_soup's try (simple
\* and fallback), or _fetch_with_base_and_check and the auto decision.
AfterGet(r, o, st) ==
    LET tr == [st.trace EXCEPT !.get_outcome = r]
    IN  IF req.via # "hybrid"
        THEN [st EXCEPT !.pc = "done",
                        !.result = IF r = "resp" THEN ResSoup("http") ELSE ResNone("http"),
                        !.trace = tr]
        ELSE LET has_soup == r = "resp" /\ o.status \notin BLOCK_STATUS_CODES
                                 /\ o.status = 200
                 blocked == IF has_soup THEN looks_like_block_page(o.len, o.text)
                            ELSE TRUE
                 tr2 == [tr EXCEPT !.blocked = IF blocked THEN "yes" ELSE "no",
                                   !.base_soup = has_soup,
                                   !.page = IF has_soup THEN PageKind(o.len, o.text)
                                            ELSE "n/a"]
             IN  IF AutoDecision(has_soup, blocked, TRUE) = "escalate"
                 THEN [st EXCEPT !.pc = "browser_sleep",
                                 !.trace = [tr2 EXCEPT !.render_calls = @ + 1]]
                 ELSE [st EXCEPT !.pc = "done",
                                 !.result = IF has_soup THEN ResSoup("http")
                                            ELSE ResNone("http"),
                                 !.trace = tr2]

\* The end of one iteration of the retry loop of BaseScraper.get that did
\* not return: the backoff sleep, then the next attempt or "Giving up".
BaseRetry(o, st) ==
    IF attempt < BaseMaxRetries
    THEN [st EXCEPT !.attempt = attempt + 1]
    ELSE AfterGet("none", o, st)

\* One iteration of the retry loop of BaseScraper.get (81-139): the request
\* ends as o.
BaseAttemptStep(o) ==
    LET nl == netloc(req.url)
        tr == [trace EXCEPT !.http_attempts = @ + 1,
                            !.last_status = o.status,
                            !.block_text = HoldsBasePhrase(o.text),
                            !.retry_after = NoRetryAfter, !.wait = 0,
                            !.slept = FALSE, !.gap = NoTs]
        st0 == [pc |-> fetch_pc, attempt |-> attempt, result |-> result, trace |-> tr,
                base |-> base_last_ts, browser |-> browser_last_ts]
        st1 == [st0 EXCEPT !.base = update_last_ts(@, nl)]
        ra == ParseRetryAfter(o.retry_after)
    IN  IF o.kind = "error"
        THEN BaseRetry(o, [st0 EXCEPT !.trace.wait = ErrorBackoff * attempt])
        ELSE IF o.status \in {301, 302, 303, 307, 308} THEN AfterGet("resp", o, st1)
        ELSE IF o.status = 200
             THEN IF BaseIsBlockPage(o.text) THEN AfterGet("none", o, st1)
                  ELSE AfterGet("resp", o, st1)
        ELSE IF o.status \in {403, 429}
             THEN IF ~ra.ok
                  THEN AfterGet("raised", o,
                                [st1 EXCEPT !.trace.retry_after = o.retry_after,
                                            !.trace.wait = NoTs])
                  ELSE BaseRetry(o, [st1 EXCEPT
                                        !.trace.retry_after =
                                            IF attempt < BaseMaxRetries
                                            THEN o.retry_after ELSE NoRetryAfter,
                                        !.trace.wait = RetryWait(o.retry_after, attempt)])
        ELSE BaseRetry(o, [st1 EXCEPT !.trace.wait = ErrorBackoff * attempt])

BaseAttempt(o) ==
    LET st == BaseAttemptStep(o)
    IN  /\ fetch_pc = "base_attempt"
        /\ fetch_pc' = st.pc
        /\ attempt' = st.attempt
        /\ result' = st.result
        /\ trace' = st.trace
        /\ base_last_ts' = st.base
        /\ browser_last_ts' = st.browser
        /\ UNCHANGED <<req, BROWSER, HYBRID_BY_PORTAL, session>>

\* The time between the last HTTP attempt of the call and the rendering
\* request that follows it: what get slept after that attempt (nothing when
\* it returned or raised) and what the rendering fetcher's own
\* _sleep_if_needed sleeps; the code between the two takes no time.
CrossGap(wait, d) == (IF wait = NoTs THEN 0 ELSE wait) + d

\* BrowserScraper.fetch_html: _sleep_if_needed(netloc)
BrowserSleepIfNeeded(elapsed, target) ==
    LET has_last == netloc(req.url) \in browser_last_ts
        d == BrowserSleepDelay(has_last, elapsed, target)
    IN  /\ fetch_pc = "browser_sleep"
        /\ BROWSER = "open"
        /\ fetch_pc' = "browser_attempt"
        /\ attempt' = 1
        /\ trace' = [trace EXCEPT !.slept = d > 0,
                                  !.gap = GapAfterSleep(has_last, elapsed, d),
                                  !.cross_paced =
                                      \/ trace.http_attempts = 0
                                      \/ CrossGap(trace.wait, d) >= BaseMinDelay]
        /\ UNCHANGED <<req, BROWSER, HYBRID_BY_PORTAL, session, result,
                       base_last_ts, browser_last_ts>>

\* _fetch_with_browser that goes back to the HTTP fetcher when rendering
\* brought no HTML.
AfterBrowserRetriesHttp(ret, st) ==
    IF ret = "html"
    THEN [st EXCEPT !.pc = "done", !.result = ResSoup("browser"),
                    !.trace = [@ EXCEPT !.browser_ret = ret]]
    ELSE [st EXCEPT !.pc = "base_sleep", !.trace = [@ EXCEPT !.browser_ret = ret]]

\* The state after BrowserScraper.fetch_html returned ret ("html", "empty",
\* "none") to HybridScraper._fetch_with_browser.
AfterBrowser(ret, st) ==
    [st EXCEPT !.pc = "done",
               !.result = IF ret = "html" THEN ResSoup("browser") ELSE ResNone("browser"),
               !.trace = [@ EXCEPT !.browser_ret = ret]]

\* The end of an iteration of BrowserScraper.fetch_html that did not return.
BrowserRetry(st) ==
    IF attempt < BrowserMaxRetries
    THEN [st EXCEPT !.attempt = attempt + 1]
    ELSE AfterBrowser("none", st)

\* One iteration of the retry loop of BrowserScraper.fetch_html (187-213).
BrowserAttemptStep(o) ==
    LET nl == netloc(req.url)
        tr == [trace EXCEPT !.render_attempts = @ + 1,
                            !.slept = FALSE, !.gap = NoTs]
        st0 == [pc |-> fetch_pc, attempt |-> attempt, result |-> result, trace |-> tr,
                base |-> base_last_ts, browser |-> browser_last_ts]
        st1 == [st0 EXCEPT !.browser = update_last_ts(@, nl)]
    IN  IF o.kind # "page" THEN BrowserRetry(st0)
        ELSE IF BrowserIsBlockPage(o.text) THEN BrowserRetry(st0)
        ELSE AfterBrowser(IF o.len = 0 THEN "empty" ELSE "html",
                          [st1 EXCEPT !.trace.render_block_text = HoldsBasePhrase(o.text)])

BrowserAttempt(o) ==
    LET st == BrowserAttemptStep(o)
    IN  /\ fetch_pc = "browser_attempt"
        /\ fetch_pc' = st.pc
        /\ attempt' = st.attempt
        /\ result' = st.result
        /\ trace' = st.trace
        /\ base_last_ts' = st.base
        /\ browser_last_ts' = st.browser
        /\ UNCHANGED <<req, BROWSER, HYBRID_BY_PORTAL, session>>

\* fetch_article_soup has returned; the caller takes the result.
FetchReturn ==
    /\ fetch_pc = "done"
    /\ fetch_pc' = "idle"
    /\ req' = NoReq
    /\ result' = NoResult
    /\ trace' = NoTrace
    /\ attempt' = 0
    /\ UNCHANGED <<BROWSER, HYBRID_BY_PORTAL, base_last_ts, browser_last_ts, session>>

(***************************************************************************)
(*                 config/portals.py : validate_portals                    *)
(***************************************************************************)

\* What can be wrong with one entry of PORTALS (an entry that has no feed
\* in the model, so that the defect changes nothing else).
ConfigFaults == {"none", "missing_scrape_mode", "bad_scrape_mode",
                 "missing_rss", "rss_not_list"}

\* validate_portals(): TRUE when it raises ValueError.
validate_portals_raises(fault) == fault # "none"

(***************************************************************************)
(*                            core/runner.py                               *)
(***************************************************************************)

\* _title_from_url(url): the last path segment, "-" and "_" turned into
\* spaces, first letter upper-cased; None when the slug is empty.
title_from_url(url) ==
    CASE url = "https://example.com/x" -> "X"
      [] url = "https://samakal.com/a" -> "A"
      [] url = "https://samakal.com/b" -> "B"
      [] OTHER -> Null

\* _derive_title(item): the items collect() builds carry no title, summary
\* or description, so the slug of the link is what is left.
derive_title(item) ==
    IF Falsy(item.link) THEN Null ELSE title_from_url(item.link)

\* The portals with an entry in PARSERS.
PARSERS == {"bdnews24", "prothomalo", "risingbd", "samakal"}

\* What parser(soup) can bring: an exception, None, or a dict.
Parsed(title, body) == [kind |-> "dict", title |-> title, body |-> body]
ParserRaises == [kind |-> "raise", title |-> Null, body |-> Null]
ParserNone == [kind |-> "none", title |-> Null, body |-> Null]
ParserResults == {ParserRaises, ParserNone, Parsed(Null, Null), Parsed("Election", "body")}

\* What fetch_article_soup can bring to process_item.
FetchResults == {"soup", "none", "raise"}

\* classify_topic(portal, url, title, body): the first topic of
\* TEXT_KEYWORDS with a keyword inside "<portal> <title>" lower-cased
\* ("exam" of education comes before "election" of politics); no URL of the
\* model carries a keyword of URL_KEYWORDS and no body is longer than 80.
classify_topic(portal, url, title, body) ==
    IF portal = "example" THEN "education"
    ELSE IF title \in {"Election", "ELECTION"} THEN "politics"
    ELSE "other"

\* process_item where the fetch exception is not caught.
ProcessPlanFetchUncaught(item, fetched, parsed) ==
    IF fetched = "raise" THEN [kind |-> "raise", title |-> Null, body |-> Null, topic |-> Null]
    ELSE [kind |-> "skip", title |-> Null, body |-> Null, topic |-> Null]

\* process_item that drops an item whose fetch brought no HTML.
ProcessPlanNoHtmlDropped(item, fetched, parsed) ==
    LET title == derive_title(item)
    IN  IF fetched # "soup" \/ Falsy(title)
        THEN [kind |-> "skip", title |-> Null, body |-> Null, topic |-> Null]
        ELSE [kind |-> "save", title |-> title, body |-> Null,
              topic |-> classify_topic(item.source, item.link, title, "")]

\* process_item(item) up to the save: "skip" (returns False), "save" (calls
\* save_article_to_db with title, body, topic) or "raise".
ProcessPlan(item, fetched, parsed) ==
    LET source == item.source
        known == source \in PortalIds
        enabled == IF known THEN PORTALS[source].enabled ELSE TRUE
        mode == IF known THEN PORTALS[source].scrape_mode ELSE "simple"
        rss_title == derive_title(item)
        skip == [kind |-> "skip", title |-> Null, body |-> Null, topic |-> Null]
        use_parser == mode # "rss_only" /\ fetched = "soup" /\ source \in PARSERS
        got == IF parsed.kind = "dict" THEN parsed ELSE Parsed(Null, Null)
        title1 == IF use_parser THEN Or(got.title, rss_title) ELSE rss_title
        body == IF use_parser THEN got.body ELSE Null
        title == IF Falsy(title1) THEN title_from_url(item.link) ELSE title1
    IN  IF ~enabled THEN skip
        ELSE IF mode # "rss_only" /\ fetched = "raise" THEN skip
        ELSE IF Falsy(title) /\ Falsy(body) THEN skip
        ELSE [kind |-> "save", title |-> title, body |-> body,
              topic |-> classify_topic(source, item.link,
                                       Or(title, ""), Or(body, ""))]

NoItem == [link |-> Null, fetched |-> "n/a", parser |-> "n/a", returned |-> "n/a"]

NoStats == [saved |-> 0, skipped |-> 0, failed |-> 0]

\* run_single_cycle(): db.init_db(), then collect() starts.
RunCycleBegin ==
    /\ cycle_pc = "idle"
    /\ collect_pos = 0
    /\ cycle_pc' = "collect"
    /\ \E fts_available \in BOOLEAN : init_db(fts_available)
    /\ UNCHANGED <<item_pos, stats, last_item, handed, rehanded, cfg_fault>>
    /\ UNCHANGED <<collectVars, fetchVars>>

\* run_single_cycle(): collect() runs.
RunCollect ==
    /\ cycle_pc = "collect"
    /\ (CollectBegin \/ CollectFeed)

\* run_single_cycle(): items = collect() returns; total = len(items).
RunCollected ==
    /\ cycle_pc = "collect"
    /\ collect_pos = Len(Feeds) + 1
    /\ collect_pos' = 0
    /\ cycle_pc' = "process"
    /\ item_pos' = 1
    /\ UNCHANGED <<seen_set, state_file, results, marked_prior, marked_pass, skipped_pass,
                   feed_trace>>
    /\ UNCHANGED <<stats, handed, rehanded, last_item, cfg_fault>>
    /\ UNCHANGED <<dbVars, fetchVars>>

\* One iteration of `for item in items`: process_item(item), then the
\* counters.
RunProcessItem(fetched, parsed, fault) ==
    LET item == results[item_pos]
        rss_only == item.source \in PortalIds
                    /\ PORTALS[item.source].scrape_mode = "rss_only"
        plan == ProcessPlan(item, fetched, parsed)
        failure == (~rss_only /\ fetched = "raise")
                   \/ (~rss_only /\ fetched = "soup" /\ item.source \in PARSERS
                       /\ parsed.kind = "raise")
        seen_item == [link |-> item.link,
                      fetched |-> IF rss_only THEN "n/a" ELSE fetched,
                      parser |-> IF ~rss_only /\ fetched = "soup" /\ item.source \in PARSERS
                                 THEN parsed.kind ELSE "n/a",
                      returned |-> "n/a"]
    IN  /\ cycle_pc = "process"
        /\ item_pos \in 1..Len(results)
        /\ handed' = handed \cup {item.link}
        /\ rehanded' = IF item.link \in handed THEN rehanded \cup {item.link} ELSE rehanded
        /\ CASE plan.kind = "raise" ->
                  /\ cycle_pc' = "aborted"
                  /\ UNCHANGED <<item_pos, stats, dbVars>>
                  /\ last_item' = [seen_item EXCEPT !.returned = "raised"]
             [] plan.kind = "skip" ->
                  /\ cycle_pc' = cycle_pc
                  /\ item_pos' = item_pos + 1
                  /\ stats' = [stats EXCEPT !.skipped = @ + 1,
                                            !.failed = IF failure THEN @ + 1 ELSE @]
                  /\ last_item' = [seen_item EXCEPT !.returned = "False"]
                  /\ UNCHANGED dbVars
             [] plan.kind = "save" ->
                  /\ insert_news_row(NewRow(item.source, item.link, plan.title, plan.body,
                                            plan.topic, item.rss_date), fault)
                  /\ cycle_pc' = cycle_pc
                  /\ item_pos' = item_pos + 1
                  /\ stats' = [saved |-> stats.saved + db_ret'.val,
                               skipped |-> stats.skipped + (1 - db_ret'.val),
                               failed |-> IF failure THEN stats.failed + 1 ELSE stats.failed]
                  /\ last_item' = [seen_item EXCEPT !.returned =
                                       IF db_ret'.val = 1 THEN "True" ELSE "False"]
        /\ UNCHANGED <<cfg_fault, collectVars, fetchVars>>

\* run_single_cycle(): the loop is over, the summary is logged.
RunCycleEnd ==
    /\ cycle_pc = "process"
    /\ item_pos = Len(results) + 1
    /\ cycle_pc' = "idle"
    /\ item_pos' = 0
    /\ stats' = NoStats
    /\ last_item' = NoItem
    /\ UNCHANGED <<handed, rehanded, cfg_fault>>
    /\ UNCHANGED <<dbVars, collectVars, fetchVars>>

(***************************************************************************)
(*                core/backfill_topics.py : backfill_topics                *)
(* The pass reads and updates table news over a connection of its own.     *)
(***************************************************************************)

\* topic_classifier.TOPICS
TOPICS == {"politics", "economy", "sports", "entertainment", "crime", "education",
           "religion", "international", "tech", "health", "environment", "other"}

\* The batch_size values a pass is started with.
BatchSizes == {1, 2}

\* No pass is running.  batches: the batches committed so far.
NoBackfill == [pc |-> "idle", batch_size |-> 0, batches |-> 0]

\* SELECT id, portal, url, title, content FROM news WHERE topic IS NULL
NullTopicRows(tbl) == {r \in tbl : r.topic = Null}

\* What LIMIT batch_size can select of the rows: the statement has no ORDER BY.
Selections(rows, batch_size) ==
    {sel \in SUBSET rows :
        Cardinality(sel) = (IF Cardinality(rows) < batch_size
                            THEN Cardinality(rows) ELSE batch_size)}

\* The loop body for one selected row: its topic is classified from its
\* columns, None read as "".
BackfillRow(r) ==
    [r EXCEPT !.topic = classify_topic(Or(r.portal, ""), Or(r.url, ""),
                                       Or(r.title, ""), Or(r.content, ""))]

\* Trigger news_au (AFTER UPDATE ON news): the entry of the old row is
\* deleted from news_fts and the new row is entered under its id.
news_au(idx, ids) ==
    IF idx.created THEN [idx EXCEPT !.rowids = @ \cup ids] ELSE idx

\* The 'delete' command of news_au is given a row the index does not hold.
\* FTS5 leaves the outcome open: the statement goes through, or it raises
\* sqlite3.DatabaseError (database disk image is malformed).
StaleEntry(idx, sel) == idx.created /\ \E r \in sel : r.id \notin idx.rowids

\* backfill_topics(batch_size), up to the loop.
backfill_begin(batch_size) ==
    /\ backfill.pc = "idle"
    /\ backfill' = [pc |-> "select", batch_size |-> batch_size, batches |-> 0]
    /\ UNCHANGED <<news, sqlite_seq, news_fts, db_call, db_ret, search_ret, workers, conn>>

\* One iteration of `while True`: the SELECT; without rows the loop is left
\* and the pass ends ("done"); else every selected row is updated and the
\* batch is committed, or an UPDATE raises ("raised": the exception leaves
\* backfill_topics and the updates of the batch are never committed).
backfill_batch(sel, raises) ==
    LET rows == NullTopicRows(news)
    IN  /\ backfill.pc = "select"
        /\ IF rows = {}
           THEN /\ sel = {} /\ ~raises
                /\ backfill' = [backfill EXCEPT !.pc = "done"]
                /\ UNCHANGED <<news, news_fts>>
           ELSE /\ sel \in Selections(rows, backfill.batch_size)
                /\ raises => StaleEntry(news_fts, sel)
                /\ IF raises
                   THEN /\ backfill' = [backfill EXCEPT !.pc = "raised"]
                        /\ UNCHANGED <<news, news_fts>>
                   ELSE /\ news' = (news \ sel) \cup {BackfillRow(r) : r \in sel}
                        /\ news_fts' = news_au(news_fts, {r.id : r \in sel})
                        /\ backfill' = [backfill EXCEPT !.batches = @ + 1]
        /\ UNCHANGED <<sqlite_seq, db_call, db_ret, search_ret, workers, conn>>

Init ==
    /\ news = {}
    /\ sqlite_seq = 0
    /\ news_fts = [created |-> FALSE, rowids |-> {}]
    /\ db_call = [op |-> "none", url |-> Null, fault |-> "ok",
                  stored_before |-> FALSE, count_before |-> 0,
                  nourl |-> "none", differs |-> FALSE]
    /\ db_ret = [kind |-> "none", val |-> 0]
    /\ search_ret = NoSearch
    /\ workers = NoWorkers
    /\ conn = NoConn
    /\ backfill = NoBackfill
    /\ seen_set = {}
    /\ state_file = [kind |-> "missing", hashes |-> {}]
    /\ collect_pos = 0
    /\ results = <<>>
    /\ marked_prior = {}
    /\ marked_pass = {}
    /\ skipped_pass = {}
    /\ feed_trace = NoFeedTrace
    /\ fetch_pc = "idle"
    /\ req = NoReq
    /\ attempt = 0
    /\ BROWSER = "none"
    /\ HYBRID_BY_PORTAL = {}
    /\ base_last_ts = {}
    /\ browser_last_ts = {}
    /\ result = NoResult
    /\ trace = NoTrace
    /\ session = NoSession
    /\ cycle_pc = "idle"
    /\ item_pos = 0
    /\ stats = NoStats
    /\ handed = {}
    /\ rehanded = {}
    /\ last_item = NoItem
    /\ cfg_fault = "none"

InsertNews ==
    /\ \E portal \in DbPortals, url \in DbUrls, title \in Titles,
          content \in Contents, fault \in DbFaults :
           insert_news(portal, url, title, content, fault)
    /\ UNCHANGED <<collectVars, fetchVars, runVars>>

\* At most one statement of a call raises: one execute, or the COMMIT.
InsertArticles ==
    /\ \E articles \in Batches :
           \/ \E commit \in CommitFaults : insert_articles(articles, {}, commit)
           \/ \E i \in 1..Len(articles) : insert_articles(articles, {i}, "ok")
    /\ UNCHANGED <<collectVars, fetchVars, runVars>>

NextDb == InsertNews \/ InsertArticles

\* A process calls init_db(); the SQLite build it runs with has FTS5 or not.
InitDb ==
    /\ \E fts_available \in BOOLEAN : init_db(fts_available)
    /\ UNCHANGED <<collectVars, fetchVars, runVars>>

NextIndex == InitDb \/ InsertNews \/ InsertArticles

SpecIndex == Init /\ [][NextIndex]_vars

Search ==
    /\ \E query \in Queries, strategy \in Strategies, limit \in Limits :
           search_news(query, strategy, limit)
    /\ UNCHANGED <<collectVars, fetchVars, runVars>>

\* A caller stores an article; the statement succeeds.
InsertNewsOk ==
    /\ \E portal \in DbPortals, url \in DbUrls, title \in Titles, content \in Contents :
           insert_news(portal, url, title, content, "ok")
    /\ UNCHANGED <<collectVars, fetchVars, runVars>>

\* The table is filled, then it is searched once: every search is explored
\* in every table state, and a behaviour ends with its search.
NextSearch == search_ret = NoSearch /\ (InitDb \/ InsertNewsOk \/ Search)

SpecSearch == Init /\ [][NextSearch]_vars

WorkersBegin ==
    /\ \E mode \in WorkerModes, url \in DbUrls : workers_begin(mode, url)
    /\ UNCHANGED <<collectVars, fetchVars, runVars>>

WorkerExists ==
    /\ \E w \in Workers : worker_exists(w)
    /\ UNCHANGED <<collectVars, fetchVars, runVars>>

WorkerExecute ==
    /\ \E w \in Workers, fault \in {"ok", "execute"} : worker_execute(w, fault)
    /\ UNCHANGED <<collectVars, fetchVars, runVars>>

WorkerCommit ==
    /\ \E w \in Workers, fault \in {"ok", "commit"} : worker_commit(w, fault)
    /\ UNCHANGED <<collectVars, fetchVars, runVars>>

\* The table is filled by single calls, then the two workers run.
FillBeforeWorkers == workers.mode = "none" /\ (InitDb \/ InsertNewsOk)

NextWorkers ==
    \/ FillBeforeWorkers
    \/ WorkersBegin
    \/ WorkerExists
    \/ WorkerExecute
    \/ WorkerCommit

SpecWorkers == Init /\ [][NextWorkers]_vars

SpecDb == Init /\ [][NextDb]_vars

\* A caller stores an article with or without a title and a topic.
StoreRow ==
    /\ \E portal \in DbPortals, url \in DbUrls, title \in Titles \cup {Null},
          topic \in {Null, "sports"} :
           insert_news_row(NewRow(portal, url, title, Null, topic, Null), "ok")
    /\ UNCHANGED <<collectVars, fetchVars, runVars>>

BackfillBegin ==
    /\ \E batch_size \in BatchSizes : backfill_begin(batch_size)
    /\ UNCHANGED <<collectVars, fetchVars, runVars>>

BackfillBatch ==
    /\ \E sel \in SUBSET news, raises \in BOOLEAN : backfill_batch(sel, raises)
    /\ UNCHANGED <<collectVars, fetchVars, runVars>>

\* The table is filled, before or after init_db() created the index; then
\* the pass runs.
FillBeforeBackfill == backfill.pc = "idle" /\ (InitDb \/ StoreRow)

NextBackfill == FillBeforeBackfill \/ BackfillBegin \/ BackfillBatch

SpecBackfill == Init /\ [][NextBackfill]_vars

\* A storage helper whose _get_conn() raises: the helper raises with it.
ConnectFails ==
    /\ \E fault \in ConnFaults \ {"ok"} : conn' = get_conn(conn, fault)
    /\ ~conn.cached
    /\ UNCHANGED <<news, sqlite_seq, news_fts, db_call, db_ret, search_ret, workers,
                   backfill>>
    /\ UNCHANGED <<collectVars, fetchVars, runVars>>

\* close()
Close ==
    /\ conn' = close(conn)
    /\ UNCHANGED <<news, sqlite_seq, news_fts, db_call, db_ret, search_ret, workers,
                   backfill>>
    /\ UNCHANGED <<collectVars, fetchVars, runVars>>

NextConn == InitDb \/ InsertNewsOk \/ ConnectFails \/ Close

SpecConn == Init /\ [][NextConn]_vars

NextCollect == CollectBegin \/ CollectFeed \/ CollectReturn

SpecCollect == Init /\ [][NextCollect]_vars

\* Passes of collect() over feeds of which some are malformed.
NextFeeds == CollectBegin \/ CollectAnyFeed \/ CollectReturn

SpecFeeds == Init /\ [][NextFeeds]_vars

\* The process ends (at any point) and a new one starts with the PORTALS
\* that carry the defect fault: module state is rebuilt,
\* state_manager._manager = StateManager() reloads the state file; the
\* database file stays.
ProcessStart(fault) ==
    /\ \E readable \in BOOLEAN : seen_set' = load(state_file, readable)
    /\ collect_pos' = 0
    /\ results' = <<>>
    /\ marked_prior' = marked_prior \cup marked_pass
    /\ marked_pass' = {}
    /\ skipped_pass' = {}
    /\ feed_trace' = NoFeedTrace
    /\ fetch_pc' = "idle"
    /\ req' = NoReq
    /\ attempt' = 0
    /\ BROWSER' = "none"
    /\ HYBRID_BY_PORTAL' = {}
    /\ base_last_ts' = {}
    /\ browser_last_ts' = {}
    /\ result' = NoResult
    /\ trace' = NoTrace
    /\ session' = NoSession
    /\ cycle_pc' = "idle"
    /\ item_pos' = 0
    /\ stats' = NoStats
    /\ last_item' = NoItem
    /\ cfg_fault' = fault
    /\ UNCHANGED <<state_file, handed, rehanded, dbVars>>

\* A restart with the configuration unchanged.
ProcessRestart == ProcessStart(cfg_fault)

NextRestart == CollectBegin \/ CollectFeed \/ CollectReturn \/ ProcessRestart

SpecRestart == Init /\ [][NextRestart]_vars

RunItem ==
    \E fetched \in FetchResults, parsed \in ParserResults, fault \in {"ok", "execute"} :
        RunProcessItem(fetched, parsed, fault)

\* The runner in loop mode: cycle after cycle in one process.
NextLoop == RunCycleBegin \/ RunCollect \/ RunCollected \/ RunItem \/ RunCycleEnd

SpecLoop == Init /\ [][NextLoop]_vars

\* Single-cycle mode: main() returns after run_single_cycle() and the next
\* invocation is a new process.
RunRestart == cycle_pc = "idle" /\ ProcessRestart

\* The first start of the pipeline, with any PORTALS: nothing was collected
\* or stored yet.
FirstStart ==
    /\ cycle_pc = "idle"
    /\ handed = {}
    /\ marked_prior \cup marked_pass = {}
    /\ cfg_fault = "none"
    /\ \E fault \in ConfigFaults \ {"none"} : ProcessStart(fault)

\* Items whose downstream processing fails: the fetch raises or brings
\* nothing, and sqlite refuses the INSERT.
RunItemFailing ==
    \E fetched \in {"raise", "none"} : RunProcessItem(fetched, ParserNone, "execute")

\* The runner over process runs, with failing items.
NextRun ==
    RunCycleBegin \/ RunCollect \/ RunCollected \/ RunItemFailing \/ RunCycleEnd \/ RunRestart

SpecRun == Init /\ [][NextRun]_vars

\* The runner from its first start on, with failing items.
NextStart ==
    FirstStart \/ RunCycleBegin \/ RunCollect \/ RunCollected \/ RunItemFailing \/ RunCycleEnd

SpecStart == Init /\ [][NextStart]_vars

FetchCall ==
    /\ \E portal \in ReqPortals, url \in FetchUrls, start_ok \in BOOLEAN :
           FetchArticleSoup(portal, url, start_ok, FALSE)
    /\ UNCHANGED <<dbVars, collectVars, runVars>>

BaseSleep ==
    /\ \E elapsed \in Elapsed, target \in BaseTargets : BaseSleepIfNeeded(elapsed, target)
    /\ UNCHANGED <<dbVars, collectVars, runVars>>

BaseRequest ==
    /\ \E o \in HttpOutcomes : BaseAttempt(o)
    /\ UNCHANGED <<dbVars, collectVars, runVars>>

BrowserSleep ==
    /\ \E elapsed \in Elapsed, target \in BrowserTargets :
           BrowserSleepIfNeeded(elapsed, target)
    /\ UNCHANGED <<dbVars, collectVars, runVars>>

BrowserRequest ==
    /\ \E o \in BrowserOutcomes : BrowserAttempt(o)
    /\ UNCHANGED <<dbVars, collectVars, runVars>>

FetchDone == FetchReturn /\ UNCHANGED <<dbVars, collectVars, runVars>>

NextFetch ==
    \/ FetchCall
    \/ BaseSleep
    \/ BaseRequest
    \/ BrowserSleep
    \/ BrowserRequest
    \/ FetchDone

SpecFetch == Init /\ [][NextFetch]_vars

\* A search while the full-text index does not exist (init_db has not run,
\* or the SQLite build has no FTS5).
SearchUnindexed ==
    /\ ~news_fts.created
    /\ search_news("body", "all", DefaultLimit)
    /\ UNCHANGED <<collectVars, fetchVars, runVars>>

\* A request made while the rendering engine cannot be started.
FetchCallNoEngine ==
    /\ \E portal \in ReqPortals, url \in FetchUrls :
           FetchArticleSoup(portal, url, FALSE, FALSE)
    /\ UNCHANGED <<dbVars, collectVars, runVars>>

\* One process that fetches articles and answers searches while neither the
\* rendering engine nor the full-text index is available.
NextDegraded == FetchCallNoEngine \/ BaseSleep \/ BaseRequest \/ FetchDone \/ SearchUnindexed

SpecDegraded == Init /\ [][NextDegraded]_vars

ShutdownCall ==
    /\ \E exit_ok \in BOOLEAN : shutdown(exit_ok)
    /\ UNCHANGED <<dbVars, collectVars, runVars>>

ProcessExit ==
    /\ \E exit_ok \in BOOLEAN : process_exit(exit_ok)
    /\ UNCHANGED <<dbVars, collectVars, runVars>>

NextShutdown == NextFetch \/ ShutdownCall \/ ProcessExit

SpecShutdown == Init /\ [][NextShutdown]_vars

\* A request whose session start, if one is attempted, fails: before the
\* driver was started (the import, sync_playwright().start()) or after it
\* (chromium.launch, new_context or new_page raised).
FetchCallStartFails ==
    /\ \E portal \in ReqPortals, url \in FetchUrls, partway \in BOOLEAN :
           FetchArticleSoup(portal, url, FALSE, partway)
    /\ UNCHANGED <<dbVars, collectVars, runVars>>

NextStartFails == NextShutdown \/ FetchCallStartFails

SpecStartFails == Init /\ [][NextStartFails]_vars

(***************************************************************************)
(*                              Claims: collector                          *)
(***************************************************************************)

ResultLinks == {results[i].link : i \in 1..Len(results)}

C11_SeenIsMonotonic ==
    \A link \in marked_prior \cup marked_pass : seen(seen_set, link)

\* C12: each link is handed to process_item at most once over any number
\* of collection cycles, also when its downstream processing failed.
C12_HandedAtMostOnce == rehanded = {}

\* C24 (as stated): a feed that parses as malformed is skipped: collect()
\* takes no candidate item from it and marks none of its links seen.
C24_MalformedFeedSkipped ==
    \A link \in feed_trace.malformed : link \notin ResultLinks /\ ~seen(seen_set, link)

\* C24 (amended): a feed that cannot be loaded (HTTP or decoding error, the
\* parser raising) is skipped: collect() takes no candidate item from it and
\* marks none of its links seen, and the pass goes on with the next feed;
\* the entries of a feed that the parser only flags as malformed are
\* collected and marked seen like those of any feed.
C24_FailedFeedSkipped ==
    /\ feed_trace.failed = {}
    /\ feed_trace.skipped => collect_pos \in (2..(Len(Feeds) + 1)) \cup {0}
    /\ \A link \in feed_trace.malformed : seen(seen_set, link)

\* A finished pass skipped a feed that could not be loaded although its
\* document held entries, took a link from a malformed feed and returned
\* candidate items.
C24_Witness ==
    /\ collect_pos = 0
    /\ feed_trace.skipped
    /\ feed_trace.malformed # {}
    /\ Len(results) = 2

(***************************************************************************)
(*                              Claims: storage                            *)
(***************************************************************************)

UniqueUrl == \A r1, r2 \in news : r1.url = r2.url => r1 = r2

C21_BatchReturnsAdded ==
    db_call.op = "insert_articles" =>
        /\ db_ret.kind = "int" => db_ret.val = Count(news) - db_call.count_before
        /\ db_call.nourl = "all" =>
               /\ Count(news) = db_call.count_before
               /\ db_call.fault = "ok" => db_ret = [kind |-> "int", val |-> 0]

\* A batch with an item without url and an item whose URL was stored
\* already returned 0 and raised nothing.
C21_Witness ==
    /\ db_call.op = "insert_articles"
    /\ db_call.nourl = "some"
    /\ db_call.fault = "ok"
    /\ db_call.count_before = 2
    /\ Count(news) = 2
    /\ db_ret = [kind |-> "int", val |-> 0]

\* C23: no insert_news and no insert_articles call changes or deletes a
\* row: every row stored before the call is stored after it with the same
\* id, portal, url, title, content, topic and pub_date, whatever the call
\* carries for its URL.
C23_ExistingRowsUntouched == [][\A r \in news : r \in news']_vars

\* An insert_articles call carried other values for a URL that was stored,
\* and returned 0.
C23_Witness ==
    /\ db_call.op = "insert_articles"
    /\ db_call.fault = "ok"
    /\ db_call.differs
    /\ db_call.count_before = 1
    /\ db_ret = [kind |-> "int", val |-> 0]
    /\ Count(news) = 1

\* C13: when the full-text index exists (init_db ran with FTS5 available),
\* it holds exactly the ids of the rows of news: one entry per row, none
\* for a row that does not exist, rows stored before the index was created
\* included.
C13_IndexMatchesRows ==
    news_fts.created => news_fts.rowids = {r.id : r \in news}

\* C14: when news_fts does not exist or the MATCH query fails, search_news
\* does not raise: it answers from the LIKE query over title and content,
\* and every stored row whose content contains the searched substring is in
\* the result (unless the result was cut at `limit` rows).
C14_SearchFallsBack ==
    /\ search_ret.path # "raised"
    /\ search_ret.fts = "OperationalError" =>
           /\ search_ret.path = "like"
           /\ Cardinality(search_ret.ids) < search_ret.limit
                  => search_ret.hits \subseteq search_ret.ids

\* A search answered by the fallback while no index exists returned a row
\* whose content holds the query inside a word, where no token matches.
C14_Witness ==
    /\ search_ret.path = "like"
    /\ ~news_fts.created
    /\ \E r \in ContentHits(news, search_ret.query) :
           /\ r.id \in search_ret.ids
           /\ r.id \in search_ret.hits
           /\ ~PhraseInRow(r, strip(search_ret.query))

\* The rows of the URL of the two workers that some connection holds.
WorkerUrlRows == {r \in news \cup workers.pending : r.url = workers.url}

WorkersReturnedTrue == {w \in Workers : workers.ret[w] = "True"}

TokenRows(tbl, token) ==
    {r \in tbl : PhraseInColumn(r.title, token) \/ PhraseInColumn(r.content, token)}

\* The rows whose title or content holds the text, as a token or inside one.
TextRows(tbl, text) == {r \in tbl : Like(r.title, text) \/ Like(r.content, text)}

\* C22: after a search_news(token, strategy = "all") with the default limit,
\* every stored article that has the token in its title or content is in
\* the result, and the result is empty when the token occurs in no stored
\* title or content.
C22_SearchRoundTrip ==
    (/\ search_ret.path # "none"
     /\ search_ret.strategy = "all"
     /\ search_ret.limit = DefaultLimit
     /\ IsBareword(strip(search_ret.query))) =>
        /\ \A r \in TokenRows(news, strip(search_ret.query)) : r.id \in search_ret.ids
        /\ TextRows(news, strip(search_ret.query)) = {} => search_ret.ids = {}

(***************************************************************************)
(*                          Claims: fetch policy                           *)
(***************************************************************************)
InCall == req.via # "idle"

ReqMode == IF req.portal \in PortalIds THEN PORTALS[req.portal].scrape_mode ELSE "unknown"

ReqEnabled == req.portal \in PortalIds /\ PORTALS[req.portal].enabled

NoFetcherUsed ==
    /\ trace.http_attempts = 0
    /\ trace.render_attempts = 0
    /\ trace.render_calls = 0
    /\ trace.start_attempts = 0
    /\ fetch_pc \notin {"base_sleep", "base_attempt", "browser_sleep", "browser_attempt"}

\* C3: for a portal whose scrape_mode is rss_only, fetch_article_soup
\* returns nothing, neither fetcher issues a request and no rendering
\* session is started, whatever the URL.
C3_RssOnlyIssuesNoRequest ==
    (InCall /\ ReqMode = "rss_only") =>
        /\ fetch_pc = "done"
        /\ result = ResNone("none")
        /\ NoFetcherUsed

C3_Witness ==
    /\ fetch_pc = "done"
    /\ req.portal = "prothomalo"
    /\ req.url = "https://example.com/x"
    /\ result.val = "none"
    /\ BROWSER = "open"

\* C4: for a portal whose scrape_mode is simple, the rendering fetcher is
\* never invoked and never started, also when the HTTP fetcher gives up on a
\* blocked or failing URL; the call then returns nothing.
C4_SimpleNeverRenders ==
    (InCall /\ ReqEnabled /\ ReqMode = "simple") =>
        /\ trace.render_calls = 0
        /\ trace.render_attempts = 0
        /\ trace.start_attempts = 0
        /\ fetch_pc \notin {"browser_sleep", "browser_attempt"}
        /\ (trace.get_outcome \in {"none", "raised"} =>
                fetch_pc = "done" /\ result.val = "none")

C4_Witness ==
    /\ fetch_pc = "done"
    /\ req.portal = "risingbd"
    /\ trace.http_attempts = BaseMaxRetries
    /\ trace.last_status = 403
    /\ trace.get_outcome = "none"
    /\ result.val = "none"
    /\ BROWSER = "none"

\* C5: in hybrid (auto) mode with a rendering fetcher configured, a request
\* whose netloc is in the portal's hard_domains goes straight to the
\* rendering fetcher; the HTTP fetcher is not invoked for it.
C5_HardDomainSkipsHttp ==
    (/\ InCall
     /\ req.via = "hybrid"
     /\ req.hmode = "auto"
     /\ netloc(req.url) \in PORTALS[req.portal].hard_domains) =>
        /\ trace.http_attempts = 0
        /\ trace.get_outcome = "n/a"
        /\ trace.render_calls = 1
        /\ fetch_pc \in {"browser_sleep", "browser_attempt", "done"}
        /\ (fetch_pc = "done" => result.from = "browser")

C5_Witness ==
    /\ fetch_pc = "done"
    /\ req.portal = "example"
    /\ req.url = "https://example.com/x"
    /\ req.hmode = "auto"
    /\ trace.render_attempts = 1
    /\ trace.http_attempts = 0
    /\ result = ResSoup("browser")

\* C6: in hybrid (auto) mode with a rendering fetcher configured, when the
\* HTTP attempt is classified as blocked the rendering fetcher is invoked
\* exactly once for the request and its result is what the call returns.
C6_BlockedEscalatesOnce ==
    (InCall /\ req.via = "hybrid" /\ req.hmode = "auto" /\ trace.blocked = "yes") =>
        /\ trace.render_calls = 1
        /\ fetch_pc \in {"browser_sleep", "browser_attempt", "done"}
        /\ (fetch_pc = "done" =>
                /\ trace.browser_ret # "n/a"
                /\ result.from = "browser"
                /\ (result.val = "soup" <=> trace.browser_ret = "html"))

C6_Witness ==
    /\ fetch_pc = "done"
    /\ req.hmode = "auto"
    /\ trace.last_status = 403
    /\ trace.http_attempts = BaseMaxRetries
    /\ trace.blocked = "yes"
    /\ trace.render_calls = 1
    /\ result = ResSoup("browser")

\* C7: for a portal whose scrape_mode is browser, when the rendering
\* session is available only the rendering fetcher is used: the HTTP
\* fetcher never issues a request, also when rendering returns no HTML.
C7_BrowserModeExclusive ==
    (InCall /\ ReqEnabled /\ ReqMode = "browser" /\ trace.hybrid) =>
        /\ trace.http_attempts = 0
        /\ trace.get_outcome = "n/a"
        /\ trace.render_calls = 1
        /\ fetch_pc \in {"browser_sleep", "browser_attempt", "done"}
        /\ (fetch_pc = "done" => result.from = "browser")

C7_Witness ==
    /\ fetch_pc = "done"
    /\ req.portal = "bdnews24"
    /\ trace.render_attempts = BrowserMaxRetries
    /\ trace.browser_ret = "none"
    /\ result = ResNone("browser")
    /\ trace.http_attempts = 0

\* C8: when the first request of a fetch call is about to go out to a
\* netloc for which the fetcher has a recorded request, that recorded
\* request is at least the fetcher's min_delay old.
C8_MinDelayBetweenCalls ==
    /\ (/\ fetch_pc = "base_attempt"
        /\ attempt = 1
        /\ netloc(req.url) \in base_last_ts) => trace.gap >= BaseMinDelay
    /\ (/\ fetch_pc = "browser_attempt"
        /\ attempt = 1
        /\ netloc(req.url) \in browser_last_ts) => trace.gap >= BrowserMinDelay

C8_Witness ==
    /\ fetch_pc = "base_attempt"
    /\ attempt = 1
    /\ netloc(req.url) \in base_last_ts
    /\ trace.slept
    /\ trace.gap = BaseMinDelay

\* C9: BaseScraper.get never raises to its caller: it returns a response or
\* None, also for a 403/429 whose Retry-After header is not an integer.
C9_GetNeverRaises == trace.get_outcome # "raised"

\* C10: a fetch call makes at most max_retries attempts; an attempt that
\* ends in a network error or a 403/429/5xx response is retried while
\* attempts are left, and when all are used the fetcher returns None.
C10_RetriesThenNone ==
    /\ trace.http_attempts <= BaseMaxRetries
    /\ trace.render_attempts <= BrowserMaxRetries
    /\ (/\ trace.get_outcome # "n/a"
        /\ trace.last_status \in {0, 403, 429, 500, 503}) =>
            /\ trace.http_attempts = BaseMaxRetries
            /\ trace.get_outcome = "none"
    /\ (trace.browser_ret = "none" => trace.render_attempts = BrowserMaxRetries)

\* C25: a 200 response whose body holds a block-page phrase of the HTTP
\* fetcher, in any casing, is not returned as success: BaseScraper.get
\* returns None for it, the hybrid classifies the attempt as blocked, and
\* the call never returns a soup made from it.
C25_BlockPageNeverSuccess ==
    (InCall /\ trace.last_status = 200 /\ trace.block_text) =>
        /\ trace.get_outcome = "none"
        /\ ~trace.base_soup
        /\ req.via = "hybrid" => trace.blocked = "yes"
        /\ result # ResSoup("http")

\* A hybrid call got a 200 page of full length that says "CLOUDFLARE" on
\* its first request; the attempt counted as blocked and went to the
\* rendering fetcher.
C25_Witness ==
    /\ req.via = "hybrid"
    /\ req.hmode = "auto"
    /\ trace.last_status = 200
    /\ trace.block_text
    /\ trace.http_attempts = 1
    /\ trace.get_outcome = "none"
    /\ trace.blocked = "yes"
    /\ fetch_pc = "browser_sleep"

\* C26: the rendering fetcher's block-page phrases are a superset of the
\* HTTP fetcher's: no page body that the HTTP fetcher classifies as a block
\* page passes the rendering fetcher's test, so the rendering fetcher never
\* returns such a page.
C26_RenderingPhrasesSuperset ==
    trace.browser_ret \in {"html", "empty"} => ~trace.render_block_text

\* C27: after a 403 or 429 response the wait before the next HTTP attempt
\* is the Retry-After value when the response carries the header, and the
\* attempt-proportional backoff (5 s times the number of the attempt that
\* was answered) when it does not.
C27_RetryAfterPrecedence ==
    (/\ trace.last_status \in {403, 429}
     /\ (fetch_pc = "base_attempt" /\ attempt > 1) \/ trace.get_outcome = "raised") =>
        IF trace.retry_after.present
        THEN /\ trace.retry_after.int
             /\ trace.wait = TicksPerSecond * trace.retry_after.val
        ELSE trace.wait = RateLimitBackoff * (attempt - 1)

\* C29 as stated: in auto mode a 200 response that the HTTP fetcher returned
\* and whose HTML has at least the minimum length is returned as the parsed
\* result and the rendering fetcher is not invoked, whatever the page says.
C29_LongPageReturned ==
    (/\ InCall /\ req.via = "hybrid" /\ req.hmode = "auto"
     /\ trace.get_outcome = "resp" /\ trace.last_status = 200
     /\ trace.page \in {"long_keyword", "long_plain"}) =>
        /\ trace.render_calls = 0
        /\ fetch_pc = "done"
        /\ result = ResSoup("http")

\* C29 amended: in auto mode a 200 response that the HTTP fetcher returned,
\* whose HTML has at least the minimum length and holds none of the
\* hybrid's block keywords, is returned as the parsed result and the
\* rendering fetcher is not invoked.
C29_LongPlainPageReturned ==
    (/\ InCall /\ req.via = "hybrid" /\ req.hmode = "auto"
     /\ trace.get_outcome = "resp" /\ trace.last_status = 200
     /\ trace.page = "long_plain") =>
        /\ trace.blocked = "no"
        /\ trace.render_calls = 0
        /\ trace.render_attempts = 0
        /\ fetch_pc = "done"
        /\ result = ResSoup("http")

C29_Witness ==
    /\ fetch_pc = "done" /\ req.via = "hybrid" /\ req.hmode = "auto"
    /\ trace.get_outcome = "resp" /\ trace.last_status = 200
    /\ trace.page = "long_plain"
    /\ result = ResSoup("http")

\* C30: in auto mode, when the HTTP attempt produced HTML that was
\* classified as suspicious and the escalated rendering attempt ends blocked
\* or empty, the coordinator returns the HTML that exists, not nothing.
C30_SuspiciousHtmlStillReturned ==
    (/\ fetch_pc = "done" /\ req.via = "hybrid" /\ req.hmode = "auto"
     /\ trace.base_soup /\ trace.blocked = "yes"
     /\ trace.browser_ret \in {"none", "empty"}) =>
        result.val = "soup"

\* C31: a failed start of the rendering engine is cached as unavailable:
\* once a request of the process has found the engine unavailable (it
\* logged the fallback), no later request attempts to start the engine.
C31_FailedStartCached ==
    [][(session.unavailable >= 1 /\ fetch_pc = "idle" /\ fetch_pc' # "idle")
           => trace'.start_attempts = 0]_vars

\* C32: escalation is one-way within a request: once the rendering fetcher
\* has been invoked for a URL, the HTTP fetcher issues no further request
\* for that call and the call stays with the rendering fetcher until it
\* returns; one request issues at most max_retries HTTP attempts followed
\* by at most max_retries rendering attempts.
C32_EscalationOneWay ==
    [][/\ (InCall /\ trace.render_calls >= 1 /\ fetch_pc' # "idle") =>
              /\ trace'.http_attempts = trace.http_attempts
              /\ trace'.render_calls = 1
              /\ fetch_pc' \in {"browser_sleep", "browser_attempt", "done"}
       /\ trace'.render_attempts > trace.render_attempts => trace.render_calls = 1
       /\ trace'.http_attempts <= BaseMaxRetries
       /\ trace'.render_attempts <= BrowserMaxRetries]_vars

C32_Witness ==
    /\ fetch_pc = "done" /\ req.via = "hybrid" /\ req.hmode = "auto"
    /\ trace.http_attempts = BaseMaxRetries
    /\ trace.render_calls = 1
    /\ trace.render_attempts = BrowserMaxRetries
    /\ trace.browser_ret = "none"

\* C34: per-domain pacing holds across the two fetchers: in a hybrid
\* escalation the rendering request goes out at least the minimum delay
\* (the smaller one, that of the HTTP fetcher) after the HTTP request that
\* was just made to the same domain.
C34_PacingAcrossFetchers ==
    (/\ fetch_pc = "browser_attempt" /\ attempt = 1
     /\ trace.http_attempts > 0) => trace.cross_paced

\* C35: inside one BaseScraper.get call two consecutive attempts are at
\* least min_delay apart, whatever the first of them brought: the sleep
\* between them is at least min_delay.
C35_AttemptsPaced ==
    (fetch_pc = "base_attempt" /\ attempt > 1) => trace.wait >= BaseMinDelay

\* C28: each kind of engine unavailability is logged at most once per
\* process: however many hybrid or browser requests find the rendering
\* engine unavailable and however many searches find the full-text index
\* unavailable, each degradation message is logged once.
C28_DegradationLoggedOnce ==
    /\ session.unavailable <= 1
    /\ search_ret.warned <= 1

(***************************************************************************)
(*                       Claims: rendering session                         *)
(***************************************************************************)

\* C15: every rendering session that was started is torn down exactly once
\* by process shutdown, and shutdown() is idempotent: a call that follows
\* another one closes nothing and leaves _BROWSER None and the cache empty;
\* an exception of __exit__ does not leave shutdown().
C15_TornDownExactlyOnce ==
    /\ ~session.lost
    /\ session.exits <= 1
    /\ fetch_pc = "exited" =>
           /\ BROWSER = "none" /\ session.live = 0
           /\ session.started => session.exits = 1
    /\ session.calls >= 1 =>
           /\ BROWSER = "none" /\ HYBRID_BY_PORTAL = {}
           /\ session.exits = IF session.started THEN 1 ELSE 0

\* A session was started, shutdown() was called, and the exit hook called
\* it a second time.
C15_Witness ==
    /\ fetch_pc = "exited"
    /\ session.started
    /\ session.calls = 2
    /\ session.exits = 1

\* C36: no fetch is dispatched to a torn-down rendering session: a cached
\* HybridScraper always holds the open session, a rendering request is made
\* only on a session no __exit__ was called on, and a call made after
\* shutdown() starts a new session or is served without the rendering
\* fetcher.
C36_NoFetchOnClosedSession ==
    /\ HYBRID_BY_PORTAL # {} =>
           BROWSER = "open" /\ session.live = 1 /\ session.exits = 0
    /\ fetch_pc \in {"browser_sleep", "browser_attempt"} =>
           BROWSER = "open" /\ session.exits = 0
    /\ (session.calls >= 1 /\ InCall) =>
           /\ req.via \in {"none", "simple", "fallback"}
           /\ trace.render_calls = 0

\* A session was started and shut down, and a later call of a hybrid or
\* browser portal, whose start attempt failed, was served by the HTTP
\* fetcher.
C36_Witness ==
    /\ session.started /\ session.calls >= 1 /\ session.exits = 1
    /\ fetch_pc = "done" /\ req.via = "fallback"
    /\ trace.start_attempts = 1

\* C37: when starting the rendering session fails partway, no engine
\* resource stays open: what was started is closed before the failure is
\* reported or by shutdown(), so once shutdown() has run nothing that a
\* failed start left behind is open.
C37_FailedStartLeavesNothingOpen ==
    (session.calls >= 1 \/ fetch_pc = "exited") => ~session.orphaned

\* C16: with no shutdown() in between, at most one rendering session is
\* successfully started; a hybrid or browser request for any portal made
\* while a session is open uses it and starts none.
C16_OneSessionStarted ==
    /\ session.live <= 1
    /\ (BROWSER = "open") = (session.live = 1)
    /\ HYBRID_BY_PORTAL # {} => BROWSER = "open"
    /\ (InCall /\ req.via = "hybrid" /\ trace.start_attempts = 0) => BROWSER = "open"

\* Two portals hold a HybridScraper over the one session, and the running
\* request reused it without a start attempt.
C16_Witness ==
    /\ Cardinality(HYBRID_BY_PORTAL) >= 2
    /\ session.live = 1
    /\ InCall /\ req.via = "hybrid"
    /\ trace.start_attempts = 0
    /\ trace.render_attempts >= 1

\* C17: when the rendering engine is missing or does not start, a request
\* for a hybrid or browser portal does not raise: it is served by the HTTP
\* fetcher alone, and what fetch_article_soup returns is what the HTTP
\* fetcher gave (HTML, or None when it returned nothing or raised).
C17_EngineMissingFallsBack ==
    (InCall /\ ReqEnabled /\ ReqMode \in {"hybrid", "browser"} /\ ~trace.hybrid) =>
        /\ req.via = "fallback"
        /\ trace.render_calls = 0 /\ trace.render_attempts = 0
        /\ fetch_pc \in {"base_sleep", "base_attempt", "done"}
        /\ fetch_pc = "done" =>
               /\ trace.http_attempts >= 1
               /\ result.from = "http"
               /\ result.val \in {"soup", "none"}
               /\ (result.val = "soup" <=> trace.get_outcome = "resp")

\* A browser-mode request whose session start failed returned the page the
\* HTTP fetcher got.
C17_Witness ==
    /\ fetch_pc = "done"
    /\ ReqMode = "browser"
    /\ trace.start_attempts = 1
    /\ ~trace.hybrid
    /\ BROWSER = "none"
    /\ req.via = "fallback"
    /\ result = ResSoup("http")

(***************************************************************************)
(*                             Claims: runner                              *)
(***************************************************************************)

\* C18: a failure of fetch, extraction or classification for one item never
\* aborts the batch: run_single_cycle goes on to the next item, every item
\* handled so far is counted as saved or skipped; an item whose fetch raised
\* is skipped, and an item whose parser raised is skipped or stored with
\* the title derived from its URL and no body.
C18_ItemFailureNeverAborts ==
    /\ cycle_pc # "aborted"
    /\ last_item.returned # "raised"
    /\ cycle_pc = "process" => stats.saved + stats.skipped = item_pos - 1
    /\ last_item.fetched = "raise" => last_item.returned = "False"
    /\ (last_item.parser = "raise" /\ last_item.returned = "True") =>
           \E r \in news : /\ r.url = last_item.link
                            /\ r.title = title_from_url(last_item.link)
                            /\ r.content = Null

\* The loop has handled every item of a pass of at least two items, one of
\* which failed, and the item after the failure was stored.
C18_Witness ==
    /\ cycle_pc = "process"
    /\ Len(results) >= 2
    /\ item_pos = Len(results) + 1
    /\ stats.failed >= 1
    /\ stats.skipped >= 1
    /\ last_item.returned = "True"
    /\ last_item.fetched = "soup"

\* C33: when the fetch yields no HTML for an item of a portal that is not
\* rss_only and a title can be derived from the item, process_item does not
\* drop the item: it calls the save with the derived title and no body; the
\* call returns True with the article stored under that title, or False
\* because the URL was stored already or the insert failed.
C33_NoHtmlFallsBackToRss ==
    (last_item.fetched = "none" /\ ~Falsy(title_from_url(last_item.link))) =>
        /\ db_call.op = "insert_news"
        /\ db_call.url = last_item.link
        /\ last_item.returned = "True" =>
               \E r \in news : /\ r.url = last_item.link
                                /\ r.title = title_from_url(last_item.link)
                                /\ r.content = Null
        /\ last_item.returned = "False" =>
               db_call.stored_before \/ db_call.fault # "ok"

C33_Witness ==
    /\ last_item.fetched = "none"
    /\ last_item.returned = "True"
    /\ \E r \in news : /\ r.url = last_item.link
                         /\ r.title = title_from_url(last_item.link)
                         /\ r.content = Null

\* C19: a portal configuration validate_portals rejects (scrape_mode
\* missing or unrecognized, rss missing or not a list) prevents the
\* pipeline from starting: no cycle begins, no feed is collected, no item
\* is handed to process_item and nothing is stored.
C19_InvalidConfigPreventsStart ==
    validate_portals_raises(cfg_fault) =>
        /\ cycle_pc = "idle"
        /\ collect_pos = 0
        /\ marked_pass = {}
        /\ handed = {}

(***************************************************************************)
(*                 Claims: topic backfill, connection                      *)
(***************************************************************************)

C39_OneConnection ==
    /\ [](conn.open <= 1 /\ (conn.cached <=> conn.open = 1))
    /\ [][/\ conn.cached => conn'.open <= conn.open
          /\ (~conn.cached /\ conn'.cached) => conn'.open = 1
          /\ (~conn.cached /\ conn.closes >= 1 /\ ~conn'.cached) => conn'.open = 0]_vars

\* C39: a connection that was opened after two close() calls in a row.
C39_Witness == conn.cached /\ conn.open = 1 /\ conn.after_closes = 2

=============================================================================
